---- MODULE Spec2Model ----
\* Binary codec of the ledger primitives of package types (types/encoding.go):
\* Currency, CoveredFields, UnlockConditions, the transaction elements,
\* Transaction, Block, the debug cross-check harness and the UnlockHash text
\* form.  Bytes are the integers 0..255, byte strings are sequences of bytes.
\* An encoder is modelled by the sequence of chunks it hands to Write, one
\* chunk per Write call; the bytes written are the chunks flattened.
EXTENDS Integers, Sequences, FiniteSets, TLC

\* ---------------------------------------------------------------- bounds

\* Largest number of elements placed in a Transaction under test.
MaxElems == 2
\* Largest number of machine words of a Currency magnitude under test.
MaxWords == 2
\* Largest number of transactions / miner payouts of a Block under test.
MaxBlockTxs == 1
\* Largest number of characters of a text handed to Scan / UnmarshalJSON.
MaxText == 3
\* Largest number of Write calls / reference bytes driven through a
\* sanityCheckWriter under test.
MaxWrites == 3

\* ------------------------------------------------------ program constants

\* crypto.HashSize: bytes of a hash, an identifier, an UnlockHash.
HashSize == 32
\* crypto.SegmentSize: bytes of a StorageProof segment.
SegmentSize == 64
\* len(Specifier{}): bytes of a Specifier.
SpecifierLen == 16
\* len(BlockNonce{}): bytes of a block nonce.
NonceLen == 8
\* UnlockHashChecksumSize: bytes of the checksum of an UnlockHash text form.
UnlockHashChecksumSize == 6
\* _S of Currency.MarshalPis: bytes per big.Word (64-bit build).
BytesPerWord == 8

\* ------------------------------------------------------------- sequences

\* F applied to the value of e: e is evaluated once, however often F uses it.
Bind(e, F(_)) == CHOOSE y \in {F(x) : x \in {e}} : TRUE

RECURSIVE FlattenRange(_, _, _)
\* The bytes of the chunks cs[lo], ..., cs[hi].
FlattenRange(cs, lo, hi) ==
  IF lo > hi THEN <<>>
  ELSE IF lo = hi THEN cs[lo]
  ELSE FlattenRange(cs, lo, (lo + hi) \div 2)
         \o FlattenRange(cs, (lo + hi) \div 2 + 1, hi)

\* The bytes of a sequence of chunks, in order.
Flatten(chunks) ==
  Bind(chunks, LAMBDA cs : FlattenRange(cs, 1, Len(cs)))

\* n copies of x.
Fill(n, x) == [i \in 1..n |-> x]

\* n bytes x+1, x+2, ... : a fixed-size array whose bytes all differ.
Ramp(n, x) == [i \in 1..n |-> (x + i) % 256]

\* s reversed.
Reverse(s) == [i \in 1..Len(s) |-> s[Len(s) + 1 - i]]

\* The first n elements of s (all of s when it is shorter).
Take(s, n) == SubSeq(s, 1, IF n < Len(s) THEN n ELSE Len(s))

\* s without its first n elements.
Drop(s, n) == SubSeq(s, (IF n < Len(s) THEN n ELSE Len(s)) + 1, Len(s))

\* ------------------------------------------- encoding.Encoder primitives

RECURSIVE LEBytes(_, _)
\* The k low-order bytes of n, least significant first.
LEBytes(n, k) ==
  IF k = 0 THEN <<>> ELSE <<n % 256>> \o LEBytes(n \div 256, k - 1)

\* Encoder.WriteUint64: one Write of 8 little-endian bytes.
WriteUint64(n) == <<LEBytes(n, 8)>>

\* Encoder.WriteInt: a count or length as an 8-byte integer.
WriteInt(n) == WriteUint64(n)

\* Encoder.WriteBool: one byte, 1 or 0.
WriteBool(b) == <<(IF b THEN <<1>> ELSE <<0>>)>>

\* Encoder.WriteByte: one Write of one byte.
WriteByte(b) == <<(<<b>>)>>

\* Encoder.Write of a fixed-size array or slice.
WriteRaw(p) == <<p>>

\* Encoder.WritePrefixedBytes: the length, then the bytes.
WritePrefixedBytes(p) == WriteInt(Len(p)) \o WriteRaw(p)

RECURSIVE WriteEach(_, _)
\* for i := range xs { xs[i].MarshalPis(e) }
WriteEach(Marshal(_), xs) ==
  IF xs = <<>> THEN <<>> ELSE Marshal(Head(xs)) \o WriteEach(Marshal, Tail(xs))

RECURSIVE SumOver(_, _)
\* for _, x := range xs { size += F(x) }
SumOver(F(_), xs) ==
  IF xs = <<>> THEN 0 ELSE F(Head(xs)) + SumOver(F, Tail(xs))

\* --------------------------------------------------------------- Currency
\* A Currency wraps a big.Int: a sign and the magnitude words (Bits()),
\* least significant word first; a word is its BytesPerWord bytes, least
\* significant byte first.  The magnitude is normalised: no zero top word.

ZeroWord == Fill(BytesPerWord, 0)

\* word >> (k*8): the word shifted right by k bytes.
ShrBytes(word, k) ==
  [j \in 1..BytesPerWord |-> IF j + k <= BytesPerWord THEN word[j + k] ELSE 0]

\* byte(word): the low-order byte.
LowByte(word) == word[1]

\* bits[i/_S] >> (uint(i%_S)*8), i counting bytes from 0.
ShiftedWord(bits, i) ==
  ShrBytes(bits[(i \div BytesPerWord) + 1], i % BytesPerWord)

RECURSIVE SeekFirstNonZero(_, _)
\* for i = len(bits)*_S - 1; i >= 0; i-- { if bits[i/_S]>>... != 0 { break } }
SeekFirstNonZero(bits, i) ==
  IF i < 0 THEN i
  ELSE IF ShiftedWord(bits, i) # ZeroWord THEN i
  ELSE SeekFirstNonZero(bits, i - 1)

RECURSIVE WriteBytesDown(_, _)
\* for ; i >= 0; i-- { e.WriteByte(byte(bits[i/_S] >> (uint(i%_S) * 8))) }
WriteBytesDown(bits, i) ==
  IF i < 0 THEN <<>>
  ELSE WriteByte(LowByte(ShiftedWord(bits, i))) \o WriteBytesDown(bits, i - 1)

\* A faulty Currency.MarshalPis: always writes whole words, keeping the
\* zero bytes above the highest non-zero byte.
Currency_MarshalPis_WholeWords(c) ==
  LET i == Len(c.abs) * BytesPerWord - 1
  IN  WriteInt(i + 1) \o WriteBytesDown(c.abs, i)

\* Currency.MarshalPis: the chunks written for c.
Currency_MarshalPis(c) ==
  LET i == SeekFirstNonZero(c.abs, Len(c.abs) * BytesPerWord - 1)
  IN  WriteInt(i + 1) \o WriteBytesDown(c.abs, i)

RECURSIVE CountSize(_, _, _, _)
\* The labelled loop of Currency.MarshalPisSize: words from the top, bytes of
\* a word from the top, size-- for each zero byte until a non-zero shift.
CountSize(bits, i, j, size) ==
  IF i < 1 THEN size
  ELSE IF j < 0 THEN CountSize(bits, i - 1, BytesPerWord - 1, size)
  ELSE IF ShrBytes(bits[i], j) # ZeroWord THEN size
  ELSE CountSize(bits, i, j - 1, size - 1)

\* A faulty Currency.MarshalPisSize: counts whole words.
Currency_MarshalPisSize_WholeWords(c) == 8 + Len(c.abs) * BytesPerWord

\* Currency.MarshalPisSize.
Currency_MarshalPisSize(c) ==
  8 + CountSize(c.abs, Len(c.abs), BytesPerWord - 1, Len(c.abs) * BytesPerWord)

RECURSIVE StripLeadingZeros(_)
\* bs without its leading zero bytes.
StripLeadingZeros(bs) ==
  IF bs # <<>> /\ Head(bs) = 0 THEN StripLeadingZeros(Tail(bs)) ELSE bs

\* big.Int.SetBytes: the magnitude words of a big-endian byte string.
SetBytes(buf) ==
  Bind(Reverse(StripLeadingZeros(buf)), LAMBDA sig :
    [neg |-> FALSE,
     abs |-> [k \in 1..((Len(sig) + BytesPerWord - 1) \div BytesPerWord) |->
               [j \in 1..BytesPerWord |->
                 IF (k - 1) * BytesPerWord + j <= Len(sig)
                 THEN sig[(k - 1) * BytesPerWord + j] ELSE 0]]])

\* big.Int.Sign.
Sign(c) == IF c.abs = <<>> THEN 0 ELSE IF c.neg THEN -1 ELSE 1

\* The Currency zero (big.NewInt(0), and the zero value of the struct).
ZeroCurrency == [neg |-> FALSE, abs |-> <<>>]

\* ------------------------------------------- encoding.Decoder primitives
\* A decoder is the byte stream r, the number n of bytes consumed and the
\* sticky error err ("nil" when none).  NewDecoder(d) of a decoder is that
\* decoder, so nested UnmarshalPis calls share one error.  Every read returns
\* the value read and the decoder after it.

NewDecoder(r) == [r |-> r, n |-> 0, err |-> "nil"]

\* Decoder.ReadFull(p): fills p; once an error is set it reads nothing; a
\* short stream fills what it has and sets the error.
ReadFull(d, p) ==
  LET avail == Len(d.r) - d.n
      k     == Len(p)
  IN  IF d.err # "nil" THEN [v |-> p, d |-> d]
      ELSE IF avail >= k
        THEN [v |-> SubSeq(d.r, d.n + 1, d.n + k), d |-> [d EXCEPT !.n = d.n + k]]
        ELSE [v |-> SubSeq(d.r, d.n + 1, Len(d.r)) \o SubSeq(p, avail + 1, k),
              d |-> [d EXCEPT !.n = Len(d.r),
                              !.err = IF avail = 0 THEN "EOF" ELSE "unexpected EOF"]]

RECURSIVE LEValue(_)
\* The integer of little-endian bytes.
LEValue(bs) == IF bs = <<>> THEN 0 ELSE Head(bs) + 256 * LEValue(Tail(bs))

\* Decoder.NextUint64: 8 little-endian bytes, 0 after an error.
NextUint64(d) ==
  Bind(ReadFull(d, Fill(8, 0)), LAMBDA x :
    [v |-> IF x.d.err # "nil" THEN 0 ELSE LEValue(x.v), d |-> x.d])

\* Decoder.NextPrefix: a count or length prefix, 0 after an error.
NextPrefix(d) == NextUint64(d)

\* Decoder.ReadPrefixedBytes: a length, then that many bytes; empty after an
\* error.
ReadPrefixedBytes(d) ==
  Bind(NextPrefix(d), LAMBDA n :
  Bind(ReadFull(n.d, Fill(n.v, 0)), LAMBDA x :
    [v |-> IF x.d.err # "nil" THEN <<>> ELSE x.v, d |-> x.d]))

RECURSIVE DecodeN(_, _, _)
\* xs = make([]T, n); for i := range xs { xs[i].UnmarshalPis(d) }
DecodeN(Unmarshal(_), d, n) ==
  IF n = 0 THEN [v |-> <<>>, d |-> d]
  ELSE Bind(Unmarshal(d), LAMBDA x :
       Bind(DecodeN(Unmarshal, x.d, n - 1), LAMBDA rest :
         [v |-> <<x.v>> \o rest.v, d |-> rest.d]))

\* A count prefix, then that many elements.
DecodeSlice(Unmarshal(_), d) ==
  Bind(NextPrefix(d), LAMBDA n : DecodeN(Unmarshal, n.d, n.v))

\* ---------------------------------------------------------- CoveredFields

\* The ten index sequences of cf in the order MarshalPis lists them.
CoveredFields_fields(cf) ==
  << cf.PiscoinInputs, cf.PiscoinOutputs, cf.FileContracts,
     cf.FileContractRevisions, cf.StorageProofs, cf.PisfundInputs,
     cf.PisfundOutputs, cf.MinerFees, cf.ArbitraryData,
     cf.TransactionSignatures >>

\* e.WriteInt(len(f)); for _, u := range f { e.WriteUint64(u) }
WriteUint64s(f) == WriteInt(Len(f)) \o WriteEach(WriteUint64, f)

\* CoveredFields.MarshalPis.
CoveredFields_MarshalPis(cf) ==
  WriteBool(cf.WholeTransaction) \o WriteEach(WriteUint64s, CoveredFields_fields(cf))

\* CoveredFields.MarshalPisSize.
CoveredFields_MarshalPisSize(cf) ==
  1 + (8 + Len(cf.PiscoinInputs) * 8)
    + (8 + Len(cf.PiscoinOutputs) * 8)
    + (8 + Len(cf.FileContracts) * 8)
    + (8 + Len(cf.FileContractRevisions) * 8)
    + (8 + Len(cf.StorageProofs) * 8)
    + (8 + Len(cf.PisfundInputs) * 8)
    + (8 + Len(cf.PisfundOutputs) * 8)
    + (8 + Len(cf.MinerFees) * 8)
    + (8 + Len(cf.ArbitraryData) * 8)
    + (8 + Len(cf.TransactionSignatures) * 8)

\* A faulty CoveredFields.UnmarshalPis: the pointers to PisfundInputs and
\* PisfundOutputs are listed in the wrong order.
CoveredFields_UnmarshalPis_Swapped(d) ==
  Bind(ReadFull(d, <<0>>), LAMBDA b :
  Bind(DecodeN(LAMBDA x : DecodeSlice(NextUint64, x), b.d, 10), LAMBDA fs :
    [v |-> [WholeTransaction      |-> (b.v[1] = 1),
            PiscoinInputs         |-> fs.v[1],
            PiscoinOutputs        |-> fs.v[2],
            FileContracts         |-> fs.v[3],
            FileContractRevisions |-> fs.v[4],
            StorageProofs         |-> fs.v[5],
            PisfundInputs         |-> fs.v[7],
            PisfundOutputs        |-> fs.v[6],
            MinerFees             |-> fs.v[8],
            ArbitraryData         |-> fs.v[9],
            TransactionSignatures |-> fs.v[10]],
     d |-> fs.d]))

\* CoveredFields.UnmarshalPis: the flag byte, then the ten sequences stored
\* through the pointer list in its order.
CoveredFields_UnmarshalPis(d) ==
  Bind(ReadFull(d, <<0>>), LAMBDA b :
  Bind(DecodeN(LAMBDA x : DecodeSlice(NextUint64, x), b.d, 10), LAMBDA fs :
    [v |-> [WholeTransaction      |-> (b.v[1] = 1),
            PiscoinInputs         |-> fs.v[1],
            PiscoinOutputs        |-> fs.v[2],
            FileContracts         |-> fs.v[3],
            FileContractRevisions |-> fs.v[4],
            StorageProofs         |-> fs.v[5],
            PisfundInputs         |-> fs.v[6],
            PisfundOutputs        |-> fs.v[7],
            MinerFees             |-> fs.v[8],
            ArbitraryData         |-> fs.v[9],
            TransactionSignatures |-> fs.v[10]],
     d |-> fs.d]))

\* ------------------------------------------------------- Currency decode

\* Currency.UnmarshalPis: dec.i.SetBytes(d.ReadPrefixedBytes()); *c = dec.
Currency_UnmarshalPis(d) ==
  Bind(ReadPrefixedBytes(d), LAMBDA x : [v |-> SetBytes(x.v), d |-> x.d])

\* ---------------------------------------- PisPublicKey, UnlockConditions

\* PisPublicKey.MarshalPis.
PisPublicKey_MarshalPis(spk) ==
  WriteRaw(spk.Algorithm) \o WritePrefixedBytes(spk.Key)

\* PisPublicKey.UnmarshalPis.
PisPublicKey_UnmarshalPis(d) ==
  Bind(ReadFull(d, Fill(SpecifierLen, 0)), LAMBDA a :
  Bind(ReadPrefixedBytes(a.d), LAMBDA k :
    [v |-> [Algorithm |-> a.v, Key |-> k.v], d |-> k.d]))

\* UnlockConditions.MarshalPis.
UnlockConditions_MarshalPis(uc) ==
  WriteUint64(uc.Timelock)
    \o WriteInt(Len(uc.PublicKeys))
    \o WriteEach(PisPublicKey_MarshalPis, uc.PublicKeys)
    \o WriteUint64(uc.SignaturesRequired)

\* UnlockConditions.MarshalPisSize.
UnlockConditions_MarshalPisSize(uc) ==
  8 + 8
    + SumOver(LAMBDA spk : Len(spk.Algorithm) + 8 + Len(spk.Key), uc.PublicKeys)
    + 8

\* UnlockConditions.UnmarshalPis.
UnlockConditions_UnmarshalPis(d) ==
  Bind(NextUint64(d), LAMBDA t :
  Bind(DecodeSlice(PisPublicKey_UnmarshalPis, t.d), LAMBDA ks :
  Bind(NextUint64(ks.d), LAMBDA s :
    [v |-> [Timelock |-> t.v, PublicKeys |-> ks.v, SignaturesRequired |-> s.v],
     d |-> s.d])))

\* ------------------------------------------------------ inputs, outputs

\* PiscoinInput.MarshalPis.
PiscoinInput_MarshalPis(sci) ==
  WriteRaw(sci.ParentID) \o UnlockConditions_MarshalPis(sci.UnlockConditions)

\* PiscoinInput.UnmarshalPis.
PiscoinInput_UnmarshalPis(d) ==
  Bind(ReadFull(d, Fill(HashSize, 0)), LAMBDA p :
  Bind(UnlockConditions_UnmarshalPis(p.d), LAMBDA uc :
    [v |-> [ParentID |-> p.v, UnlockConditions |-> uc.v], d |-> uc.d]))

\* PiscoinOutput.MarshalPis.
PiscoinOutput_MarshalPis(sco) ==
  Currency_MarshalPis(sco.Value) \o WriteRaw(sco.UnlockHash)

\* PiscoinOutput.UnmarshalPis.
PiscoinOutput_UnmarshalPis(d) ==
  Bind(Currency_UnmarshalPis(d), LAMBDA c :
  Bind(ReadFull(c.d, Fill(HashSize, 0)), LAMBDA h :
    [v |-> [Value |-> c.v, UnlockHash |-> h.v], d |-> h.d]))

\* PisfundInput.MarshalPis.
PisfundInput_MarshalPis(sfi) ==
  WriteRaw(sfi.ParentID)
    \o UnlockConditions_MarshalPis(sfi.UnlockConditions)
    \o WriteRaw(sfi.ClaimUnlockHash)

\* PisfundInput.UnmarshalPis.
PisfundInput_UnmarshalPis(d) ==
  Bind(ReadFull(d, Fill(HashSize, 0)), LAMBDA p :
  Bind(UnlockConditions_UnmarshalPis(p.d), LAMBDA uc :
  Bind(ReadFull(uc.d, Fill(HashSize, 0)), LAMBDA h :
    [v |-> [ParentID |-> p.v, UnlockConditions |-> uc.v, ClaimUnlockHash |-> h.v],
     d |-> h.d])))

\* PisfundOutput.MarshalPis.
PisfundOutput_MarshalPis(sfo) ==
  Currency_MarshalPis(sfo.Value)
    \o WriteRaw(sfo.UnlockHash)
    \o Currency_MarshalPis(sfo.ClaimStart)

\* PisfundOutput.UnmarshalPis.
PisfundOutput_UnmarshalPis(d) ==
  Bind(Currency_UnmarshalPis(d), LAMBDA c :
  Bind(ReadFull(c.d, Fill(HashSize, 0)), LAMBDA h :
  Bind(Currency_UnmarshalPis(h.d), LAMBDA s :
    [v |-> [Value |-> c.v, UnlockHash |-> h.v, ClaimStart |-> s.v], d |-> s.d])))

\* size += sco.Value.MarshalPisSize(); size += len(sco.UnlockHash)
PiscoinOutput_size(sco) == Currency_MarshalPisSize(sco.Value) + Len(sco.UnlockHash)

\* ------------------------------------ FileContract, FileContractRevision

\* FileContract.MarshalPis.
FileContract_MarshalPis(fc) ==
  WriteUint64(fc.FileSize)
    \o WriteRaw(fc.FileMerkleRoot)
    \o WriteUint64(fc.WindowStart)
    \o WriteUint64(fc.WindowEnd)
    \o Currency_MarshalPis(fc.Payout)
    \o WriteInt(Len(fc.ValidProofOutputs))
    \o WriteEach(PiscoinOutput_MarshalPis, fc.ValidProofOutputs)
    \o WriteInt(Len(fc.MissedProofOutputs))
    \o WriteEach(PiscoinOutput_MarshalPis, fc.MissedProofOutputs)
    \o WriteRaw(fc.UnlockHash)
    \o WriteUint64(fc.RevisionNumber)

\* FileContract.MarshalPisSize.
FileContract_MarshalPisSize(fc) ==
  8 + Len(fc.FileMerkleRoot) + (8 + 8)
    + Currency_MarshalPisSize(fc.Payout)
    + 8 + SumOver(PiscoinOutput_size, fc.ValidProofOutputs)
    + 8 + SumOver(PiscoinOutput_size, fc.MissedProofOutputs)
    + Len(fc.UnlockHash)
    + 8

\* FileContract.UnmarshalPis.
FileContract_UnmarshalPis(d) ==
  Bind(NextUint64(d), LAMBDA fs :
  Bind(ReadFull(fs.d, Fill(HashSize, 0)), LAMBDA mr :
  Bind(NextUint64(mr.d), LAMBDA ws :
  Bind(NextUint64(ws.d), LAMBDA we :
  Bind(Currency_UnmarshalPis(we.d), LAMBDA po :
  Bind(DecodeSlice(PiscoinOutput_UnmarshalPis, po.d), LAMBDA vo :
  Bind(DecodeSlice(PiscoinOutput_UnmarshalPis, vo.d), LAMBDA mo :
  Bind(ReadFull(mo.d, Fill(HashSize, 0)), LAMBDA uh :
  Bind(NextUint64(uh.d), LAMBDA rn :
    [v |-> [FileSize |-> fs.v, FileMerkleRoot |-> mr.v, WindowStart |-> ws.v,
            WindowEnd |-> we.v, Payout |-> po.v, ValidProofOutputs |-> vo.v,
            MissedProofOutputs |-> mo.v, UnlockHash |-> uh.v,
            RevisionNumber |-> rn.v],
     d |-> rn.d])))))))))

\* FileContractRevision.MarshalPis.
FileContractRevision_MarshalPis(fcr) ==
  WriteRaw(fcr.ParentID)
    \o UnlockConditions_MarshalPis(fcr.UnlockConditions)
    \o WriteUint64(fcr.NewRevisionNumber)
    \o WriteUint64(fcr.NewFileSize)
    \o WriteRaw(fcr.NewFileMerkleRoot)
    \o WriteUint64(fcr.NewWindowStart)
    \o WriteUint64(fcr.NewWindowEnd)
    \o WriteInt(Len(fcr.NewValidProofOutputs))
    \o WriteEach(PiscoinOutput_MarshalPis, fcr.NewValidProofOutputs)
    \o WriteInt(Len(fcr.NewMissedProofOutputs))
    \o WriteEach(PiscoinOutput_MarshalPis, fcr.NewMissedProofOutputs)
    \o WriteRaw(fcr.NewUnlockHash)

\* FileContractRevision.MarshalPisSize.
FileContractRevision_MarshalPisSize(fcr) ==
  Len(fcr.ParentID)
    + UnlockConditions_MarshalPisSize(fcr.UnlockConditions)
    + 8 + 8
    + Len(fcr.NewFileMerkleRoot)
    + (8 + 8)
    + 8 + SumOver(PiscoinOutput_size, fcr.NewValidProofOutputs)
    + 8 + SumOver(PiscoinOutput_size, fcr.NewMissedProofOutputs)
    + Len(fcr.NewUnlockHash)

\* FileContractRevision.UnmarshalPis.
FileContractRevision_UnmarshalPis(d) ==
  Bind(ReadFull(d, Fill(HashSize, 0)), LAMBDA pid :
  Bind(UnlockConditions_UnmarshalPis(pid.d), LAMBDA uc :
  Bind(NextUint64(uc.d), LAMBDA rn :
  Bind(NextUint64(rn.d), LAMBDA fs :
  Bind(ReadFull(fs.d, Fill(HashSize, 0)), LAMBDA mr :
  Bind(NextUint64(mr.d), LAMBDA ws :
  Bind(NextUint64(ws.d), LAMBDA we :
  Bind(DecodeSlice(PiscoinOutput_UnmarshalPis, we.d), LAMBDA vo :
  Bind(DecodeSlice(PiscoinOutput_UnmarshalPis, vo.d), LAMBDA mo :
  Bind(ReadFull(mo.d, Fill(HashSize, 0)), LAMBDA uh :
    [v |-> [ParentID |-> pid.v, UnlockConditions |-> uc.v,
            NewRevisionNumber |-> rn.v, NewFileSize |-> fs.v,
            NewFileMerkleRoot |-> mr.v, NewWindowStart |-> ws.v,
            NewWindowEnd |-> we.v, NewValidProofOutputs |-> vo.v,
            NewMissedProofOutputs |-> mo.v, NewUnlockHash |-> uh.v],
     d |-> uh.d]))))))))))

\* --------------------------------------- StorageProof, TransactionSignature

\* StorageProof.MarshalPis.
StorageProof_MarshalPis(sp) ==
  WriteRaw(sp.ParentID)
    \o WriteRaw(sp.Segment)
    \o WriteInt(Len(sp.HashSet))
    \o WriteEach(WriteRaw, sp.HashSet)

\* StorageProof.UnmarshalPis.
StorageProof_UnmarshalPis(d) ==
  Bind(ReadFull(d, Fill(HashSize, 0)), LAMBDA pid :
  Bind(ReadFull(pid.d, Fill(SegmentSize, 0)), LAMBDA seg :
  Bind(DecodeSlice(LAMBDA x : ReadFull(x, Fill(HashSize, 0)), seg.d), LAMBDA hs :
    [v |-> [ParentID |-> pid.v, Segment |-> seg.v, HashSet |-> hs.v], d |-> hs.d])))

\* TransactionSignature.MarshalPis.
TransactionSignature_MarshalPis(ts) ==
  WriteRaw(ts.ParentID)
    \o WriteUint64(ts.PublicKeyIndex)
    \o WriteUint64(ts.Timelock)
    \o CoveredFields_MarshalPis(ts.CoveredFields)
    \o WritePrefixedBytes(ts.Signature)

\* TransactionSignature.UnmarshalPis.
TransactionSignature_UnmarshalPis(d) ==
  Bind(ReadFull(d, Fill(HashSize, 0)), LAMBDA pid :
  Bind(NextUint64(pid.d), LAMBDA pki :
  Bind(NextUint64(pki.d), LAMBDA tl :
  Bind(CoveredFields_UnmarshalPis(tl.d), LAMBDA cf :
  Bind(ReadPrefixedBytes(cf.d), LAMBDA sig :
    [v |-> [ParentID |-> pid.v, PublicKeyIndex |-> pki.v, Timelock |-> tl.v,
            CoveredFields |-> cf.v, Signature |-> sig.v],
     d |-> sig.d])))))

\* ------------------------------------------------------------ Transaction

\* Transaction.marshalPisNoSignatures: the nine count-prefixed sequences.
Transaction_marshalPisNoSignatures(t) ==
  WriteInt(Len(t.PiscoinInputs))
    \o WriteEach(PiscoinInput_MarshalPis, t.PiscoinInputs)
    \o WriteInt(Len(t.PiscoinOutputs))
    \o WriteEach(PiscoinOutput_MarshalPis, t.PiscoinOutputs)
    \o WriteInt(Len(t.FileContracts))
    \o WriteEach(FileContract_MarshalPis, t.FileContracts)
    \o WriteInt(Len(t.FileContractRevisions))
    \o WriteEach(FileContractRevision_MarshalPis, t.FileContractRevisions)
    \o WriteInt(Len(t.StorageProofs))
    \o WriteEach(StorageProof_MarshalPis, t.StorageProofs)
    \o WriteInt(Len(t.PisfundInputs))
    \o WriteEach(PisfundInput_MarshalPis, t.PisfundInputs)
    \o WriteInt(Len(t.PisfundOutputs))
    \o WriteEach(PisfundOutput_MarshalPis, t.PisfundOutputs)
    \o WriteInt(Len(t.MinerFees))
    \o WriteEach(Currency_MarshalPis, t.MinerFees)
    \o WriteInt(Len(t.ArbitraryData))
    \o WriteEach(WritePrefixedBytes, t.ArbitraryData)

\* A faulty Transaction.MarshalPis: the signatures are written first.
Transaction_MarshalPis_SignaturesFirst(t) ==
  WriteInt(Len(t.TransactionSignatures))
    \o WriteEach(TransactionSignature_MarshalPis, t.TransactionSignatures)
    \o Transaction_marshalPisNoSignatures(t)

\* Transaction.MarshalPis (the fast encoder, lines 703-709): the
\* no-signatures encoding, then the signature count and the signatures.
Transaction_MarshalPis(t) ==
  Transaction_marshalPisNoSignatures(t)
    \o WriteInt(Len(t.TransactionSignatures))
    \o WriteEach(TransactionSignature_MarshalPis, t.TransactionSignatures)

\* One term of each loop of Transaction.MarshalPisSize.
PiscoinInput_size(sci) ==
  Len(sci.ParentID) + UnlockConditions_MarshalPisSize(sci.UnlockConditions)

StorageProof_size(sp) ==
  Len(sp.ParentID) + Len(sp.Segment) + (8 + Len(sp.HashSet) * HashSize)

PisfundInput_size(sfi) ==
  Len(sfi.ParentID) + Len(sfi.ClaimUnlockHash)
    + UnlockConditions_MarshalPisSize(sfi.UnlockConditions)

PisfundOutput_size(sfo) ==
  Currency_MarshalPisSize(sfo.Value) + Len(sfo.UnlockHash)
    + Currency_MarshalPisSize(sfo.ClaimStart)

TransactionSignature_size(ts) ==
  Len(ts.ParentID) + 8 + 8
    + CoveredFields_MarshalPisSize(ts.CoveredFields)
    + (8 + Len(ts.Signature))

\* A faulty Transaction.MarshalPisSize: the length prefix of each
\* arbitrary-data blob is not counted.
Transaction_MarshalPisSize_NoBlobPrefix(t) ==
  8 + SumOver(PiscoinInput_size, t.PiscoinInputs)
    + 8 + SumOver(PiscoinOutput_size, t.PiscoinOutputs)
    + 8 + SumOver(FileContract_MarshalPisSize, t.FileContracts)
    + 8 + SumOver(FileContractRevision_MarshalPisSize, t.FileContractRevisions)
    + 8 + SumOver(StorageProof_size, t.StorageProofs)
    + 8 + SumOver(PisfundInput_size, t.PisfundInputs)
    + 8 + SumOver(PisfundOutput_size, t.PisfundOutputs)
    + 8 + SumOver(Currency_MarshalPisSize, t.MinerFees)
    + 8 + SumOver(Len, t.ArbitraryData)
    + 8 + SumOver(TransactionSignature_size, t.TransactionSignatures)

\* Transaction.MarshalPisSize (the sum, lines 756-807).
Transaction_MarshalPisSize(t) ==
  8 + SumOver(PiscoinInput_size, t.PiscoinInputs)
    + 8 + SumOver(PiscoinOutput_size, t.PiscoinOutputs)
    + 8 + SumOver(FileContract_MarshalPisSize, t.FileContracts)
    + 8 + SumOver(FileContractRevision_MarshalPisSize, t.FileContractRevisions)
    + 8 + SumOver(StorageProof_size, t.StorageProofs)
    + 8 + SumOver(PisfundInput_size, t.PisfundInputs)
    + 8 + SumOver(PisfundOutput_size, t.PisfundOutputs)
    + 8 + SumOver(Currency_MarshalPisSize, t.MinerFees)
    + 8 + SumOver(LAMBDA x : 8 + Len(x), t.ArbitraryData)
    + 8 + SumOver(TransactionSignature_size, t.TransactionSignatures)

\* The first nine loops of Transaction.UnmarshalPis on decoder d (lines
\* 822-857).
Transaction_decodeNoSignatures(d) ==
  Bind(DecodeSlice(PiscoinInput_UnmarshalPis, d), LAMBDA si :
  Bind(DecodeSlice(PiscoinOutput_UnmarshalPis, si.d), LAMBDA so :
  Bind(DecodeSlice(FileContract_UnmarshalPis, so.d), LAMBDA fc :
  Bind(DecodeSlice(FileContractRevision_UnmarshalPis, fc.d), LAMBDA fr :
  Bind(DecodeSlice(StorageProof_UnmarshalPis, fr.d), LAMBDA sp :
  Bind(DecodeSlice(PisfundInput_UnmarshalPis, sp.d), LAMBDA fi :
  Bind(DecodeSlice(PisfundOutput_UnmarshalPis, fi.d), LAMBDA fo :
  Bind(DecodeSlice(Currency_UnmarshalPis, fo.d), LAMBDA mf :
  Bind(DecodeSlice(ReadPrefixedBytes, mf.d), LAMBDA ad :
    [v |-> [PiscoinInputs |-> si.v, PiscoinOutputs |-> so.v,
            FileContracts |-> fc.v, FileContractRevisions |-> fr.v,
            StorageProofs |-> sp.v, PisfundInputs |-> fi.v,
            PisfundOutputs |-> fo.v, MinerFees |-> mf.v,
            ArbitraryData |-> ad.v, TransactionSignatures |-> <<>>],
     d |-> ad.d])))))))))

\* The fast decoder of Transaction.UnmarshalPis on decoder d (lines 822-861):
\* the nine sequences, then the signatures.
Transaction_decode(d) ==
  Bind(Transaction_decodeNoSignatures(d), LAMBDA a :
  Bind(DecodeSlice(TransactionSignature_UnmarshalPis, a.d), LAMBDA ts :
    [v |-> [a.v EXCEPT !.TransactionSignatures = ts.v], d |-> ts.d]))

\* A faulty Transaction.UnmarshalPis: the error is read before the
\* signatures are decoded.
Transaction_UnmarshalPis_EarlyErr(r) ==
  Bind(Transaction_decodeNoSignatures(NewDecoder(r)), LAMBDA a :
  Bind(Transaction_decode(NewDecoder(r)), LAMBDA x :
    [v |-> x.v, err |-> a.d.err, n |-> x.d.n]))

\* Transaction.UnmarshalPis(r): the value left in t, the error d.Err() and
\* the number of bytes consumed from r.
Transaction_UnmarshalPis(r) ==
  Bind(Transaction_decode(NewDecoder(r)), LAMBDA x :
    [v |-> x.v, err |-> x.d.err, n |-> x.d.n])

\* ------------------------------------------------------ values under test

\* The bytes of an ASCII text of the tests.
Ascii_ed25519 == <<101, 100, 50, 53, 53, 49, 57>>
Ascii_hello == <<104, 101, 108, 108, 111>>

\* NewSpecifier-like padding of a name to a Specifier.
SpecifierOf(name) ==
  [i \in 1..SpecifierLen |-> IF i <= Len(name) THEN name[i] ELSE 0]

Variants == {1, 2}

CurrencyV(v) == IF v = 1 THEN SetBytes(<<1, 2>>) ELSE SetBytes(Ramp(BytesPerWord + 1, 200))

PublicKeyV(v) ==
  IF v = 1 THEN [Algorithm |-> SpecifierOf(Ascii_ed25519), Key |-> Ramp(3, 10)]
  ELSE [Algorithm |-> Ramp(SpecifierLen, 100), Key |-> <<>>]

UnlockConditionsV(v) ==
  IF v = 1 THEN [Timelock |-> 0, PublicKeys |-> <<>>, SignaturesRequired |-> 0]
  ELSE [Timelock |-> 258, PublicKeys |-> <<PublicKeyV(1), PublicKeyV(2)>>,
        SignaturesRequired |-> 2]

PiscoinInputV(v) ==
  [ParentID |-> Ramp(HashSize, 10 * v), UnlockConditions |-> UnlockConditionsV(v)]

PiscoinOutputV(v) ==
  [Value |-> CurrencyV(v), UnlockHash |-> Ramp(HashSize, 20 * v)]

FileContractV(v) ==
  [FileSize |-> 4096 * v, FileMerkleRoot |-> Ramp(HashSize, 30 * v),
   WindowStart |-> 100 * v, WindowEnd |-> 300 * v,
   Payout |-> IF v = 1 THEN ZeroCurrency ELSE CurrencyV(2),
   ValidProofOutputs |-> IF v = 1 THEN <<>> ELSE <<PiscoinOutputV(1), PiscoinOutputV(2)>>,
   MissedProofOutputs |-> IF v = 1 THEN <<PiscoinOutputV(2)>> ELSE <<>>,
   UnlockHash |-> Ramp(HashSize, 40 * v), RevisionNumber |-> v - 1]

FileContractRevisionV(v) ==
  [ParentID |-> Ramp(HashSize, 50 * v), UnlockConditions |-> UnlockConditionsV(3 - v),
   NewRevisionNumber |-> 65536 * v, NewFileSize |-> 513 * v,
   NewFileMerkleRoot |-> Ramp(HashSize, 60 * v),
   NewWindowStart |-> 7 * v, NewWindowEnd |-> 9 * v,
   NewValidProofOutputs |-> IF v = 1 THEN <<PiscoinOutputV(1)>> ELSE <<>>,
   NewMissedProofOutputs |-> IF v = 1 THEN <<>> ELSE <<PiscoinOutputV(2), PiscoinOutputV(1)>>,
   NewUnlockHash |-> Ramp(HashSize, 70 * v)]

StorageProofV(v) ==
  [ParentID |-> Ramp(HashSize, 80 * v), Segment |-> Ramp(SegmentSize, 90 * v),
   HashSet |-> IF v = 1 THEN <<>> ELSE <<Ramp(HashSize, 3), Ramp(HashSize, 4)>>]

PisfundInputV(v) ==
  [ParentID |-> Ramp(HashSize, 11 * v), UnlockConditions |-> UnlockConditionsV(v),
   ClaimUnlockHash |-> Ramp(HashSize, 12 * v)]

PisfundOutputV(v) ==
  [Value |-> CurrencyV(v), UnlockHash |-> Ramp(HashSize, 13 * v),
   ClaimStart |-> IF v = 1 THEN ZeroCurrency ELSE CurrencyV(1)]

EmptyCoveredFields ==
  [WholeTransaction |-> FALSE, PiscoinInputs |-> <<>>, PiscoinOutputs |-> <<>>,
   FileContracts |-> <<>>, FileContractRevisions |-> <<>>, StorageProofs |-> <<>>,
   PisfundInputs |-> <<>>, PisfundOutputs |-> <<>>, MinerFees |-> <<>>,
   ArbitraryData |-> <<>>, TransactionSignatures |-> <<>>]

\* v = 1: the whole transaction; v = 2: index sequences in several, not all,
\* of the ten categories.
CoveredFieldsV(v) ==
  IF v = 1 THEN [EmptyCoveredFields EXCEPT !.WholeTransaction = TRUE]
  ELSE [EmptyCoveredFields EXCEPT !.PiscoinInputs = <<0, 1>>,
                                  !.FileContracts = <<2>>,
                                  !.PisfundInputs = <<3>>,
                                  !.PisfundOutputs = <<5, 4>>,
                                  !.TransactionSignatures = <<300>>]

TransactionSignatureV(v) ==
  [ParentID |-> Ramp(HashSize, 14 * v), PublicKeyIndex |-> v - 1,
   Timelock |-> 1000 * (v - 1), CoveredFields |-> CoveredFieldsV(v),
   Signature |-> IF v = 1 THEN <<>> ELSE Ramp(4, 50)]

ArbitraryDataV(v) == IF v = 1 THEN Ascii_hello ELSE <<>>

\* The ten element sequences of a Transaction, in struct order.
TxFields ==
  << "PiscoinInputs", "PiscoinOutputs", "FileContracts", "FileContractRevisions",
     "StorageProofs", "PisfundInputs", "PisfundOutputs", "MinerFees",
     "ArbitraryData", "TransactionSignatures" >>

\* The element of variant v for the k-th sequence.
ElementV(k, v) ==
  CASE k = 1 -> PiscoinInputV(v)
    [] k = 2 -> PiscoinOutputV(v)
    [] k = 3 -> FileContractV(v)
    [] k = 4 -> FileContractRevisionV(v)
    [] k = 5 -> StorageProofV(v)
    [] k = 6 -> PisfundInputV(v)
    [] k = 7 -> PisfundOutputV(v)
    [] k = 8 -> CurrencyV(v)
    [] k = 9 -> ArbitraryDataV(v)
    [] k = 10 -> TransactionSignatureV(v)

\* The zero Transaction: every sequence empty.
EmptyTx == [f \in {TxFields[k] : k \in 1..10} |-> <<>>]

\* Non-empty lists of variants up to MaxElems long.
VariantLists == UNION {[1..n -> Variants] : n \in 1..MaxElems}

\* The Transaction whose k-th sequence holds the elements of variants L and
\* whose k2-th sequence (k2 # k, none when k2 = 0) holds one element.
TxWith(k, L, k2) ==
  LET t1 == [EmptyTx EXCEPT ![TxFields[k]] = [i \in 1..Len(L) |-> ElementV(k, L[i])]]
  IN  IF k2 = 0 THEN t1 ELSE [t1 EXCEPT ![TxFields[k2]] = <<ElementV(k2, 1)>>]

\* The transactions under test: the empty one, one sequence of up to
\* MaxElems elements, and two sequences of one element each.
TxSet ==
  {EmptyTx}
    \cup {TxWith(k, L, 0) : k \in 1..10, L \in VariantLists}
    \cup UNION {{TxWith(k, <<2>>, k2) : k2 \in (1..10) \ {k}} : k \in 1..10}

\* ------------------------------------------------------------------ Block

\* Block.MarshalPis (the fast encoder, lines 47-61).
Block_MarshalPis(blk) ==
  WriteRaw(blk.ParentID)
    \o WriteRaw(blk.Nonce)
    \o WriteUint64(blk.Timestamp)
    \o WriteInt(Len(blk.MinerPayouts))
    \o WriteEach(PiscoinOutput_MarshalPis, blk.MinerPayouts)
    \o WriteInt(Len(blk.Transactions))
    \o WriteEach(Transaction_MarshalPis, blk.Transactions)

\* The fast decoder of Block.UnmarshalPis on decoder d (lines 89-102).
Block_decode(d) ==
  Bind(ReadFull(d, Fill(HashSize, 0)), LAMBDA pid :
  Bind(ReadFull(pid.d, Fill(NonceLen, 0)), LAMBDA non :
  Bind(NextUint64(non.d), LAMBDA ts :
  Bind(DecodeSlice(PiscoinOutput_UnmarshalPis, ts.d), LAMBDA mp :
  Bind(DecodeSlice(Transaction_decode, mp.d), LAMBDA txs :
    [v |-> [ParentID |-> pid.v, Nonce |-> non.v, Timestamp |-> ts.v,
            MinerPayouts |-> mp.v, Transactions |-> txs.v],
     d |-> txs.d])))))

\* The zero Block.
EmptyBlock ==
  [ParentID |-> Fill(HashSize, 0), Nonce |-> Fill(NonceLen, 0), Timestamp |-> 0,
   MinerPayouts |-> <<>>, Transactions |-> <<>>]

\* The transactions placed in blocks under test.
BlockTxSet ==
  {EmptyTx, TxWith(1, <<2>>, 0), TxWith(2, <<2>>, 9), TxWith(10, <<2, 1>>, 0)}

\* Lists up to n long over S.
ListsUpTo(S, n) == UNION {[1..m -> S] : m \in 0..n}

\* The blocks under test.
BlockSet ==
  {[ParentID |-> Ramp(HashSize, 5), Nonce |-> Ramp(NonceLen, 250),
    Timestamp |-> ts,
    MinerPayouts |-> [i \in 1..Len(P) |-> PiscoinOutputV(P[i])],
    Transactions |-> T] :
      ts \in {0, 1500000000},
      P \in ListsUpTo(Variants, MaxBlockTxs),
      T \in ListsUpTo(BlockTxSet, MaxBlockTxs)}

\* ------------------------------------------------- the reference codec
\* encoding.Encoder.EncodeAll / encoding.UnmarshalAll: the generic encoder
\* that writes the listed fields in order, a slice as its count and its
\* elements, an element that has a MarshalPis method through that method.

\* A slice: the count, then the elements.
EncodeSlice(Marshal(_), xs) == WriteInt(Len(xs)) \o WriteEach(Marshal, xs)

\* EncodeAll of the ten Transaction fields (lines 688-699): the bytes in buf.
EncodeAll_Transaction(t) ==
  Flatten(
    EncodeSlice(PiscoinInput_MarshalPis, t.PiscoinInputs)
      \o EncodeSlice(PiscoinOutput_MarshalPis, t.PiscoinOutputs)
      \o EncodeSlice(FileContract_MarshalPis, t.FileContracts)
      \o EncodeSlice(FileContractRevision_MarshalPis, t.FileContractRevisions)
      \o EncodeSlice(StorageProof_MarshalPis, t.StorageProofs)
      \o EncodeSlice(PisfundInput_MarshalPis, t.PisfundInputs)
      \o EncodeSlice(PisfundOutput_MarshalPis, t.PisfundOutputs)
      \o EncodeSlice(Currency_MarshalPis, t.MinerFees)
      \o EncodeSlice(WritePrefixedBytes, t.ArbitraryData)
      \o EncodeSlice(TransactionSignature_MarshalPis, t.TransactionSignatures))

\* EncodeAll of the five Block fields (lines 37-43): the bytes in buf.
EncodeAll_Block(blk) ==
  Flatten(
    WriteRaw(blk.ParentID)
      \o WriteRaw(blk.Nonce)
      \o WriteUint64(blk.Timestamp)
      \o EncodeSlice(PiscoinOutput_MarshalPis, blk.MinerPayouts)
      \o EncodeSlice(LAMBDA t : <<EncodeAll_Transaction(t)>>, blk.Transactions))

\* UnmarshalAll of the five Block fields (lines 73-79): the value and error.
UnmarshalAll_Block(bytes) ==
  Bind(Block_decode(NewDecoder(bytes)), LAMBDA x : [v |-> x.v, err |-> x.d.err])

\* crypto.HashObject(x) = crypto.HashObject(y) for blocks: the hash of the
\* encoding, so equal exactly when the encodings are.
SameBlockHash(x, y) == Flatten(Block_MarshalPis(x)) = Flatten(Block_MarshalPis(y))

\* ----------------------------------------------------- sanityCheckWriter
\* A sanityCheckWriter is the bytes w forwarded to the wrapped writer so
\* far, the unread rest buf of the reference bytes, and whether it panicked.

NewSanityCheckWriter(buf) == [w |-> <<>>, buf |-> buf, panic |-> FALSE]

\* sanityCheckWriter.Write that compares p but forwards nothing: a faulty
\* variant.
sanityCheckWriter_Write_NoForward(s, p) ==
  IF s.panic THEN s
  ELSE IF p # Take(s.buf, Len(p)) THEN [s EXCEPT !.panic = TRUE]
  ELSE [w |-> s.w, buf |-> Drop(s.buf, Len(p)), panic |-> FALSE]

\* sanityCheckWriter.Write(p): panic unless p equals buf.Next(len(p)), else
\* forward p.  buf.Next returns the bytes left when fewer than len(p) are.
sanityCheckWriter_Write(s, p) ==
  IF s.panic THEN s
  ELSE IF p # Take(s.buf, Len(p)) THEN [s EXCEPT !.panic = TRUE]
  ELSE [w |-> s.w \o p, buf |-> Drop(s.buf, Len(p)), panic |-> FALSE]

RECURSIVE WriteRange(_, _, _, _)
\* The Write calls cs[lo], ..., cs[hi] on s, in order; after a panic no
\* further call is made.
WriteRange(s, cs, lo, hi) ==
  IF lo > hi \/ s.panic THEN s
  ELSE IF lo = hi THEN sanityCheckWriter_Write(s, cs[lo])
  ELSE Bind(WriteRange(s, cs, lo, (lo + hi) \div 2), LAMBDA s2 :
         WriteRange(s2, cs, (lo + hi) \div 2 + 1, hi))

\* The Write calls of an encoder on a sanityCheckWriter, in order.
WriteAll(s0, chunks) ==
  Bind(s0, LAMBDA s : Bind(chunks, LAMBDA cs : WriteRange(s, cs, 1, Len(cs))))

\* ------------------------------------------- the operations, with DEBUG
\* Each returns the outcome of one call: what reached the caller's writer,
\* the returned error, whether the call panicked, whether the reference
\* codec ran.

\* Transaction.MarshalPis(w) with build.DEBUG = debug (lines 684-710).
Call_Transaction_MarshalPis(t, debug) ==
  IF debug
  THEN Bind(WriteAll(NewSanityCheckWriter(EncodeAll_Transaction(t)),
                     Transaction_MarshalPis(t)), LAMBDA s :
         [w |-> s.w, err |-> "nil", panic |-> s.panic, ref |-> TRUE])
  ELSE [w |-> Flatten(Transaction_MarshalPis(t)), err |-> "nil",
        panic |-> FALSE, ref |-> FALSE]

\* Transaction.MarshalPisSize() with build.DEBUG = debug (lines 755-817):
\* in debug the sum is compared with len(encoding.Marshal(t)).
Call_Transaction_MarshalPisSize(t, debug) ==
  Bind(Transaction_MarshalPisSize(t), LAMBDA size :
    IF debug
    THEN Bind(Call_Transaction_MarshalPis(t, TRUE), LAMBDA m :
           [size |-> size, panic |-> m.panic \/ Len(m.w) # size, ref |-> TRUE])
    ELSE [size |-> size, panic |-> FALSE, ref |-> FALSE])

\* Transaction.UnmarshalPis(r) (lines 820-863): build.DEBUG is not read.
Call_Transaction_UnmarshalPis(r, debug) ==
  Bind(Transaction_UnmarshalPis(r), LAMBDA x :
    [r |-> r, v |-> x.v, err |-> x.err, n |-> x.n, panic |-> FALSE, ref |-> FALSE])

\* Block.MarshalPis(w) with build.DEBUG = debug (lines 33-62); in debug each
\* transaction's MarshalPis runs its own check as well.
Call_Block_MarshalPis(blk, debug) ==
  IF debug
  THEN Bind(WriteAll(NewSanityCheckWriter(EncodeAll_Block(blk)),
                     Block_MarshalPis(blk)), LAMBDA s :
         [w |-> s.w, err |-> "nil",
          panic |-> s.panic
                     \/ \E i \in 1..Len(blk.Transactions) :
                          Call_Transaction_MarshalPis(blk.Transactions[i], TRUE).panic,
          ref |-> TRUE])
  ELSE [w |-> Flatten(Block_MarshalPis(blk)), err |-> "nil",
        panic |-> FALSE, ref |-> FALSE]

\* Block.UnmarshalPis(r) with build.DEBUG = debug (lines 65-104): in debug
\* the deferred function decodes the consumed bytes with UnmarshalAll and,
\* unless that fails, panics when the two blocks hash differently.
Call_Block_UnmarshalPis(r, debug) ==
  Bind(Block_decode(NewDecoder(r)), LAMBDA x :
    IF debug
    THEN Bind(UnmarshalAll_Block(Take(r, x.d.n)), LAMBDA check :
           [r |-> r, v |-> x.v, err |-> x.d.err, n |-> x.d.n,
            panic |-> check.err = "nil" /\ ~SameBlockHash(x.v, check.v),
            ref |-> TRUE])
    ELSE [r |-> r, v |-> x.v, err |-> x.d.err, n |-> x.d.n,
          panic |-> FALSE, ref |-> FALSE])

\* ============================================================== the state

VARIABLES
  DEBUG,  \* build.DEBUG, fixed for the life of the process
  recv,   \* the object the calls are made on: its type and its value
  calls   \* the outcome of the latest call of each operation made so far

vars == <<DEBUG, recv, calls>>

\* No call made yet.
NoCalls == [op \in {} |-> 0]

\* calls with the outcome of op recorded.
Put(f, op, outcome) ==
  [x \in DOMAIN f \cup {op} |-> IF x = op THEN outcome ELSE f[x]]

Called(op) == op \in DOMAIN calls

IsA(type) == recv.type = type

\* ------------------------------------- Spec: the Transaction / Block codec

Init ==
  /\ DEBUG \in BOOLEAN
  /\ \/ \E t \in TxSet : recv = [type |-> "Transaction", v |-> t]
     \/ \E blk \in BlockSet : recv = [type |-> "Block", v |-> blk]
  /\ calls = NoCalls

\* t.MarshalPis(w) on a writer that accepts every byte.
TxMarshalPis ==
  /\ IsA("Transaction")
  /\ calls' = Put(calls, "Transaction.MarshalPis",
                  Call_Transaction_MarshalPis(recv.v, DEBUG))
  /\ UNCHANGED <<DEBUG, recv>>

\* u.marshalPisNoSignatures(w), u being t itself or t with its signatures
\* replaced by another signature list.
TxMarshalPisNoSignatures ==
  /\ IsA("Transaction")
  /\ \E other \in BOOLEAN :
       LET sigs == IF ~other THEN recv.v.TransactionSignatures
                   ELSE IF recv.v.TransactionSignatures = <<>>
                        THEN <<TransactionSignatureV(2)>> ELSE <<>>
           u    == [recv.v EXCEPT !.TransactionSignatures = sigs]
       IN  calls' = Put(calls, "Transaction.marshalPisNoSignatures",
                        [sigs |-> sigs,
                         w |-> Flatten(Transaction_marshalPisNoSignatures(u))])
  /\ UNCHANGED <<DEBUG, recv>>

\* t.MarshalPisSize().
TxMarshalPisSize ==
  /\ IsA("Transaction")
  /\ calls' = Put(calls, "Transaction.MarshalPisSize",
                  Call_Transaction_MarshalPisSize(recv.v, DEBUG))
  /\ UNCHANGED <<DEBUG, recv>>

\* new(Transaction).UnmarshalPis(r), r holding the bytes a MarshalPis call
\* that returned delivered.
TxUnmarshalPis ==
  /\ IsA("Transaction")
  /\ Called("Transaction.MarshalPis")
  /\ ~calls["Transaction.MarshalPis"].panic
  /\ calls' = Put(calls, "Transaction.UnmarshalPis",
                  Call_Transaction_UnmarshalPis(calls["Transaction.MarshalPis"].w, DEBUG))
  /\ UNCHANGED <<DEBUG, recv>>

\* b.MarshalPis(w) on a writer that accepts every byte.
BlockMarshalPis ==
  /\ IsA("Block")
  /\ calls' = Put(calls, "Block.MarshalPis", Call_Block_MarshalPis(recv.v, DEBUG))
  /\ UNCHANGED <<DEBUG, recv>>

\* new(Block).UnmarshalPis(r), r holding the bytes a MarshalPis call that
\* returned delivered.
BlockUnmarshalPis ==
  /\ IsA("Block")
  /\ Called("Block.MarshalPis")
  /\ ~calls["Block.MarshalPis"].panic
  /\ calls' = Put(calls, "Block.UnmarshalPis",
                  Call_Block_UnmarshalPis(calls["Block.MarshalPis"].w, DEBUG))
  /\ UNCHANGED <<DEBUG, recv>>

Next ==
  \/ TxMarshalPis
  \/ TxMarshalPisNoSignatures
  \/ TxMarshalPisSize
  \/ TxUnmarshalPis
  \/ BlockMarshalPis
  \/ BlockUnmarshalPis

Spec == Init /\ [][Next]_vars

\* ---------------------------------------------------- properties of Spec

\* C1: whenever MarshalPisSize and MarshalPis have both been called on the
\* transaction, the size returned is the number of bytes MarshalPis wrote.
C1_SizeIsEncodedLength ==
  (Called("Transaction.MarshalPis") /\ Called("Transaction.MarshalPisSize")
     /\ ~calls["Transaction.MarshalPis"].panic)
    => calls["Transaction.MarshalPisSize"].size = Len(calls["Transaction.MarshalPis"].w)

\* C1 witness: both calls made on a transaction holding an arbitrary-data
\* blob and a signature whose CoveredFields lists indices; the sizes agree.
C1_Witness ==
  /\ IsA("Transaction")
  /\ Called("Transaction.MarshalPis") /\ Called("Transaction.MarshalPisSize")
  /\ recv.v.ArbitraryData # <<>>
  /\ Len(recv.v.TransactionSignatures) = 1
  /\ recv.v.TransactionSignatures[1].CoveredFields.PisfundOutputs # <<>>
  /\ calls["Transaction.MarshalPisSize"].size = Len(calls["Transaction.MarshalPis"].w)
  /\ calls["Transaction.MarshalPisSize"].size > 10 * 8 + HashSize

\* C4: UnmarshalPis of the bytes MarshalPis wrote succeeds, consumes them
\* all and yields the original Transaction / Block, field by field.
C4_RoundTrip ==
  /\ Called("Transaction.UnmarshalPis") =>
       /\ calls["Transaction.UnmarshalPis"].err = "nil"
       /\ calls["Transaction.UnmarshalPis"].v = recv.v
       /\ calls["Transaction.UnmarshalPis"].n = Len(calls["Transaction.UnmarshalPis"].r)
  /\ Called("Block.UnmarshalPis") =>
       /\ calls["Block.UnmarshalPis"].err = "nil"
       /\ calls["Block.UnmarshalPis"].v = recv.v
       /\ calls["Block.UnmarshalPis"].n = Len(calls["Block.UnmarshalPis"].r)
       /\ ~calls["Block.UnmarshalPis"].panic

\* C4 witness: a decoded transaction whose signature covers index sequences
\* in several, not all, of the ten categories, equal to the original.
C4_Witness ==
  /\ IsA("Transaction")
  /\ Called("Transaction.UnmarshalPis")
  /\ Len(recv.v.TransactionSignatures) = 2
  /\ recv.v.TransactionSignatures[1].CoveredFields.PisfundOutputs = <<5, 4>>
  /\ recv.v.TransactionSignatures[1].CoveredFields.PisfundInputs = <<3>>
  /\ recv.v.TransactionSignatures[1].CoveredFields.MinerFees = <<>>
  /\ calls["Transaction.UnmarshalPis"].v = recv.v
  /\ calls["Transaction.UnmarshalPis"].err = "nil"

\* C5: the bytes of MarshalPis are the bytes of marshalPisNoSignatures, then
\* the 8-byte signature count, then each signature's encoding in order; and
\* marshalPisNoSignatures writes the same bytes when only the signatures of
\* the transaction differ.
C5_NoSignaturesIsPrefix ==
  (Called("Transaction.MarshalPis") /\ Called("Transaction.marshalPisNoSignatures")
     /\ ~calls["Transaction.MarshalPis"].panic)
    => calls["Transaction.MarshalPis"].w =
         calls["Transaction.marshalPisNoSignatures"].w
           \o LEBytes(Len(recv.v.TransactionSignatures), 8)
           \o Flatten(WriteEach(TransactionSignature_MarshalPis,
                                recv.v.TransactionSignatures))

\* C5 witness: marshalPisNoSignatures was called on the transaction with
\* other signatures than the ones MarshalPis encoded, and its bytes are a
\* strict prefix of the full encoding.
C5_Witness ==
  /\ Called("Transaction.MarshalPis") /\ Called("Transaction.marshalPisNoSignatures")
  /\ recv.v.TransactionSignatures # <<>>
  /\ recv.v.PiscoinOutputs # <<>>
  /\ calls["Transaction.marshalPisNoSignatures"].sigs # recv.v.TransactionSignatures
  /\ Len(calls["Transaction.marshalPisNoSignatures"].w)
       < Len(calls["Transaction.MarshalPis"].w) - 8
  /\ SubSeq(calls["Transaction.MarshalPis"].w, 1,
            Len(calls["Transaction.marshalPisNoSignatures"].w))
       = calls["Transaction.marshalPisNoSignatures"].w

\* C8: with build.DEBUG set, every Block.UnmarshalPis call and every
\* Transaction.UnmarshalPis call runs the reference decoder on the bytes it
\* consumed (and panics when the two results hash differently).
C8_DebugDecodeRunsReference ==
  DEBUG =>
    /\ Called("Block.UnmarshalPis") => calls["Block.UnmarshalPis"].ref
    /\ Called("Transaction.UnmarshalPis") => calls["Transaction.UnmarshalPis"].ref

\* --------------------------- SpecTrunc: decoding a truncated encoding

\* The transactions whose encodings are cut: for each sequence one element
\* of either variant and MaxElems elements, and two transactions that also
\* carry a signature.
TruncTxSet ==
  {EmptyTx}
    \cup {TxWith(k, L, 0) : k \in 1..10,
            L \in {<<1>>, <<2>>, [i \in 1..MaxElems |-> 1 + (i % 2)]}}
    \cup {TxWith(k, <<2>>, 10) : k \in {1, 3}}

\* The blocks whose encodings are cut: those with a non-zero timestamp, as
\* many payouts as transactions, and all transactions alike.
TruncBlockSet ==
  {blk \in BlockSet :
     /\ blk.Timestamp # 0
     /\ Len(blk.MinerPayouts) = Len(blk.Transactions)
     /\ \A i \in 1..Len(blk.Transactions) : blk.Transactions[i] = blk.Transactions[1]}

InitTrunc ==
  /\ \/ /\ DEBUG = FALSE
        /\ \E t \in TruncTxSet : recv = [type |-> "Transaction", v |-> t]
     \/ /\ DEBUG \in BOOLEAN
        /\ \E blk \in TruncBlockSet : recv = [type |-> "Block", v |-> blk]
  /\ calls = NoCalls

\* new(Transaction).UnmarshalPis(r), r holding only the first cut bytes of
\* the bytes MarshalPis delivered.
TxUnmarshalPisTruncated ==
  /\ IsA("Transaction")
  /\ Called("Transaction.MarshalPis")
  /\ ~calls["Transaction.MarshalPis"].panic
  /\ ~Called("Transaction.UnmarshalPis")
  /\ \E cut \in 0..(Len(calls["Transaction.MarshalPis"].w) - 1) :
       calls' = Put(calls, "Transaction.UnmarshalPis",
                    Call_Transaction_UnmarshalPis(
                      Take(calls["Transaction.MarshalPis"].w, cut), DEBUG))
  /\ UNCHANGED <<DEBUG, recv>>

\* new(Block).UnmarshalPis(r), r holding only the first cut bytes of the
\* bytes MarshalPis delivered.
BlockUnmarshalPisTruncated ==
  /\ IsA("Block")
  /\ Called("Block.MarshalPis")
  /\ ~calls["Block.MarshalPis"].panic
  /\ ~Called("Block.UnmarshalPis")
  /\ \E cut \in 0..(Len(calls["Block.MarshalPis"].w) - 1) :
       calls' = Put(calls, "Block.UnmarshalPis",
                    Call_Block_UnmarshalPis(
                      Take(calls["Block.MarshalPis"].w, cut), DEBUG))
  /\ UNCHANGED <<DEBUG, recv>>

NextTrunc ==
  \/ TxMarshalPis
  \/ TxUnmarshalPisTruncated
  \/ BlockMarshalPis
  \/ BlockUnmarshalPisTruncated

SpecTrunc == InitTrunc /\ [][NextTrunc]_vars

\* C9: UnmarshalPis on a strict prefix of the bytes MarshalPis wrote for a
\* Transaction or a Block returns a non-nil error, wherever the cut falls.
C9_TruncatedDecodeFails ==
  /\ Called("Transaction.UnmarshalPis") =>
       calls["Transaction.UnmarshalPis"].err # "nil"
  /\ Called("Block.UnmarshalPis") =>
       /\ calls["Block.UnmarshalPis"].err # "nil"
       /\ ~calls["Block.UnmarshalPis"].panic

\* C9 witness: the cut falls inside the second valid-proof output of a file
\* contract, between its currency value and the end of its unlock hash; the
\* contract, the output sequence and the output were all begun.
C9_Witness ==
  /\ IsA("Transaction")
  /\ Called("Transaction.UnmarshalPis")
  /\ recv.v.FileContracts = <<FileContractV(2)>>
  /\ recv.v.TransactionSignatures = <<>>
  /\ Len(calls["Transaction.UnmarshalPis"].r)
       = 3 * 8 + 8 + 8 + HashSize + 8 + 8
           + Currency_MarshalPisSize(CurrencyV(2)) + 8
           + PiscoinOutput_size(PiscoinOutputV(1))
           + Currency_MarshalPisSize(CurrencyV(2)) + 5
  /\ calls["Transaction.UnmarshalPis"].err = "unexpected EOF"
  /\ Len(calls["Transaction.UnmarshalPis"].v.FileContracts) = 1
  /\ Len(calls["Transaction.UnmarshalPis"].v.FileContracts[1].ValidProofOutputs) = 2

\* ------------------------------ SpecCurrency: the Currency binary codec

\* The magnitude of nw words whose highest non-zero byte is byte pos of the
\* top word and holds top, every byte below it holding fill.
WordsOf(nw, pos, top, fill) ==
  [k \in 1..nw |->
     IF k < nw THEN Fill(BytesPerWord, fill)
     ELSE [j \in 1..BytesPerWord |->
             IF j < pos THEN fill ELSE IF j = pos THEN top ELSE 0]]

\* The currencies under test: zero, and every word count up to MaxWords with
\* every position of the top byte.
CurrencySet ==
  {ZeroCurrency}
    \cup {[neg |-> FALSE, abs |-> WordsOf(nw, pos, top, fill)] :
            nw \in 1..MaxWords, pos \in 1..BytesPerWord,
            top \in {1, 255}, fill \in {0, 7}}

\* Byte strings that are no MarshalPis output: a length prefix followed by
\* bytes with a leading zero, and a prefix larger than what follows.
ForeignBytes ==
  {LEBytes(2, 8) \o <<0, 5>>, LEBytes(3, 8) \o <<0, 0, 0>>, LEBytes(9, 8) \o <<1>>}

InitCurrency ==
  /\ DEBUG = FALSE
  /\ \E c \in CurrencySet : recv = [type |-> "Currency", v |-> c]
  /\ calls = NoCalls

\* c.MarshalPis(w) on a writer that accepts every byte.
CurrencyMarshalPis ==
  /\ IsA("Currency")
  /\ calls' = Put(calls, "Currency.MarshalPis",
                  [w |-> Flatten(Currency_MarshalPis(recv.v)), err |-> "nil"])
  /\ UNCHANGED <<DEBUG, recv>>

\* c.MarshalPisSize().
CurrencyMarshalPisSize ==
  /\ IsA("Currency")
  /\ calls' = Put(calls, "Currency.MarshalPisSize",
                  [size |-> Currency_MarshalPisSize(recv.v)])
  /\ UNCHANGED <<DEBUG, recv>>

\* c.UnmarshalPis(r) stores what it decoded in c, error or not.  The calls
\* recorded are those made on the current value of c.
CurrencyUnmarshalPisOf(r) ==
  \E x \in {Currency_UnmarshalPis(NewDecoder(r))} :
    /\ recv' = [recv EXCEPT !.v = x.v]
    /\ calls' = Put(NoCalls, "Currency.UnmarshalPis",
                    [r |-> r, err |-> x.d.err, n |-> x.d.n])
    /\ UNCHANGED DEBUG

\* c.UnmarshalPis(r), r holding the bytes MarshalPis delivered or only the
\* first cut of them.
CurrencyUnmarshalPis ==
  /\ IsA("Currency")
  /\ Called("Currency.MarshalPis")
  /\ \E cut \in 0..Len(calls["Currency.MarshalPis"].w) :
       CurrencyUnmarshalPisOf(Take(calls["Currency.MarshalPis"].w, cut))

\* c.UnmarshalPis(r), r holding bytes that no MarshalPis call wrote.
CurrencyUnmarshalPisForeign ==
  /\ IsA("Currency")
  /\ \E r \in ForeignBytes : CurrencyUnmarshalPisOf(r)

NextCurrency ==
  \/ CurrencyMarshalPis
  \/ CurrencyMarshalPisSize
  \/ CurrencyUnmarshalPis
  \/ CurrencyUnmarshalPisForeign

SpecCurrency == InitCurrency /\ [][NextCurrency]_vars

\* The magnitude of c as big-endian bytes, all words in full.
BigEndian(c) == Reverse(Flatten(c.abs))

\* The number of bytes of the magnitude of c up to its highest non-zero byte.
SignificantBytes(c) == Len(StripLeadingZeros(BigEndian(c)))

\* C2: MarshalPisSize returns 8 plus the number of significant bytes of the
\* magnitude, and that is the number of bytes MarshalPis writes, whatever
\* the word count and the position of the highest non-zero byte.
C2_CurrencySizeIsEncodedLength ==
  IsA("Currency") =>
    /\ Called("Currency.MarshalPisSize") =>
         calls["Currency.MarshalPisSize"].size = 8 + SignificantBytes(recv.v)
    /\ Called("Currency.MarshalPis") =>
         Len(calls["Currency.MarshalPis"].w) = 8 + SignificantBytes(recv.v)

\* C2 witness: both calls made on a value of MaxWords words whose highest
\* non-zero byte is the third of the top word.
C2_Witness ==
  /\ IsA("Currency")
  /\ Called("Currency.MarshalPisSize") /\ Called("Currency.MarshalPis")
  /\ Len(recv.v.abs) = MaxWords
  /\ recv.v.abs[MaxWords][3] = 255
  /\ recv.v.abs[MaxWords][4] = 0
  /\ calls["Currency.MarshalPisSize"].size = 8 + (MaxWords - 1) * BytesPerWord + 3
  /\ Len(calls["Currency.MarshalPis"].w) = calls["Currency.MarshalPisSize"].size

\* C3: MarshalPis writes an 8-byte little-endian prefix n and then exactly n
\* bytes, the magnitude big-endian with a non-zero first byte; zero is the
\* prefix 0 and nothing else.
C3_CurrencyEncodingIsMinimalBigEndian ==
  (IsA("Currency") /\ Called("Currency.MarshalPis")) =>
    /\ Len(calls["Currency.MarshalPis"].w) >= 8
    /\ LEValue(Take(calls["Currency.MarshalPis"].w, 8))
         = Len(calls["Currency.MarshalPis"].w) - 8
    /\ Len(calls["Currency.MarshalPis"].w) > 8 => calls["Currency.MarshalPis"].w[9] # 0
    /\ StripLeadingZeros(BigEndian(recv.v)) = Drop(calls["Currency.MarshalPis"].w, 8)
    /\ Sign(recv.v) = 0 => calls["Currency.MarshalPis"].w = Fill(8, 0)

\* C3 witness: a value of MaxWords words with only the lowest byte of the
\* top word set, so all but one byte of that word is dropped.
C3_Witness ==
  /\ IsA("Currency")
  /\ Called("Currency.MarshalPis")
  /\ Len(recv.v.abs) = MaxWords
  /\ recv.v.abs[MaxWords] = <<1, 0, 0, 0, 0, 0, 0, 0>>
  /\ recv.v.abs[1][1] = 7
  /\ Take(calls["Currency.MarshalPis"].w, 10)
       = LEBytes((MaxWords - 1) * BytesPerWord + 1, 8) \o <<1, 7>>

\* --------------------- SpecCurrencyText: Currency from text and from JSON
\* A text is a sequence of one-character strings.

Digits == <<"0", "1", "2", "3", "4", "5", "6", "7", "8", "9">>

IsDigit(ch) == \E i \in 1..10 : Digits[i] = ch

DigitValue(ch) == (CHOOSE i \in 1..10 : Digits[i] = ch) - 1

RECURSIVE DigitRun(_)
\* The longest prefix of text made of decimal digits.
DigitRun(text) ==
  IF text # <<>> /\ IsDigit(Head(text)) THEN <<Head(text)>> \o DigitRun(Tail(text))
  ELSE <<>>

RECURSIVE DecimalValue(_, _)
\* The number a run of decimal digits denotes, acc being the value so far.
DecimalValue(run, acc) ==
  IF run = <<>> THEN acc
  ELSE DecimalValue(Tail(run), 10 * acc + DigitValue(Head(run)))

\* The normalised magnitude words of a number below one word.
NatWords(n) == IF n = 0 THEN <<>> ELSE <<LEBytes(n, BytesPerWord)>>

\* big.Int.scan(r, 0) on a text without base prefix: an optional sign, then
\* decimal digits up to the first other character, which stays unread.  An
\* empty text fails before z is touched; a text without digits fails after
\* z.abs was assigned the empty result; z.neg is assigned on success only.
Int_scan(z, text) ==
  IF text = <<>> THEN [z |-> z, err |-> "EOF", rest |-> text]
  ELSE Bind(IF Head(text) \in {"+", "-"} THEN Tail(text) ELSE text, LAMBDA t1 :
       Bind(DigitRun(t1), LAMBDA run :
         IF run = <<>>
         THEN [z |-> [z EXCEPT !.abs = <<>>], err |-> "number has no digits",
               rest |-> t1]
         ELSE Bind(NatWords(DecimalValue(run, 0)), LAMBDA abs :
                [z |-> [neg |-> abs # <<>> /\ Head(text) = "-", abs |-> abs],
                 err |-> "nil", rest |-> Drop(t1, Len(run))])))

\* big.Int.UnmarshalJSON(text): "null" is a no-op; otherwise z.scan and then
\* the whole text must have been consumed.  z keeps what scan stored in it
\* also when the call fails.
Int_UnmarshalJSON(z, text) ==
  IF text = <<"n", "u", "l", "l">> THEN [z |-> z, err |-> "nil"]
  ELSE Bind(Int_scan(z, text), LAMBDA x :
         [z |-> x.z,
          err |-> IF x.err = "nil" /\ x.rest = <<>> THEN "nil"
                  ELSE "math/big: cannot unmarshal"])

RECURSIVE TrimLeft(_, _)
TrimLeft(b, cutset) ==
  IF b # <<>> /\ Head(b) \in cutset THEN TrimLeft(Tail(b), cutset) ELSE b

\* bytes.Trim(b, cutset): b without its leading and trailing cutset bytes.
Trim(b, cutset) == Reverse(TrimLeft(Reverse(TrimLeft(b, cutset)), cutset))

\* Currency.UnmarshalJSON without the reset of c to zero: a faulty variant.
Currency_UnmarshalJSON_NoReset(c, b) ==
  Bind(Int_UnmarshalJSON(c, Trim(b, {"\""})), LAMBDA x :
    IF x.err # "nil" THEN [c |-> x.z, err |-> x.err]
    ELSE IF Sign(x.z) < 0 THEN [c |-> x.z, err |-> "ErrNegativeCurrency"]
    ELSE [c |-> x.z, err |-> "nil"])

\* Currency.UnmarshalJSON(b) on c: the value left in c and the error.
Currency_UnmarshalJSON(c, b) ==
  Bind(Int_UnmarshalJSON(c, Trim(b, {"\""})), LAMBDA x :
    IF x.err # "nil" THEN [c |-> x.z, err |-> x.err]
    ELSE IF Sign(x.z) < 0 THEN [c |-> ZeroCurrency, err |-> "ErrNegativeCurrency"]
    ELSE [c |-> x.z, err |-> "nil"])

\* Currency.Scan on c with the verb v and the input text: the value left in
\* c and the error.
Currency_Scan(c, text) ==
  Bind(Int_scan(ZeroCurrency, text), LAMBDA x :
    IF x.err # "nil" THEN [c |-> c, err |-> x.err]
    ELSE IF Sign(x.z) < 0 THEN [c |-> c, err |-> "ErrNegativeCurrency"]
    ELSE [c |-> x.z, err |-> "nil"])

\* The characters of the texts under test: a sign, a digit, a letter.
TextChars == {"-", "7", "x"}

\* The texts under test.
Texts == ListsUpTo(TextChars, MaxText)

\* The byte strings given to UnmarshalPis: the encodings of two values and
\* every prefix of them.
TextByteInputs ==
  UNION {{Take(Flatten(Currency_MarshalPis(CurrencyV(v))), cut) : cut \in 0..17}
           : v \in Variants}

InitCurrencyText ==
  /\ DEBUG = FALSE
  /\ \E c \in {ZeroCurrency, CurrencyV(1)} : recv = [type |-> "Currency", v |-> c]
  /\ calls = NoCalls

\* fmt.Sscan(text, &c), which calls c.Scan.
CurrencyScan ==
  /\ IsA("Currency")
  /\ \E text \in Texts :
       \E x \in {Currency_Scan(recv.v, text)} :
         /\ recv' = [recv EXCEPT !.v = x.c]
         /\ calls' = Put(NoCalls, "Currency.Scan", [text |-> text, err |-> x.err])
  /\ UNCHANGED DEBUG

\* c.UnmarshalJSON(b), b being a text with or without its quotes.
CurrencyUnmarshalJSON ==
  /\ IsA("Currency")
  /\ \E text \in Texts, quoted \in BOOLEAN :
       \E b \in {IF quoted THEN <<"\"">> \o text \o <<"\"">> ELSE text} :
         \E x \in {Currency_UnmarshalJSON(recv.v, b)} :
           /\ recv' = [recv EXCEPT !.v = x.c]
           /\ calls' = Put(NoCalls, "Currency.UnmarshalJSON",
                           [b |-> b, err |-> x.err, before |-> recv.v])
  /\ UNCHANGED DEBUG

\* c.UnmarshalPis(r) on complete and on truncated bytes.
CurrencyUnmarshalPisBytes ==
  /\ IsA("Currency")
  /\ \E r \in TextByteInputs : CurrencyUnmarshalPisOf(r)

NextCurrencyText ==
  \/ CurrencyScan
  \/ CurrencyUnmarshalJSON
  \/ CurrencyUnmarshalPisBytes

SpecCurrencyText == InitCurrencyText /\ [][NextCurrencyText]_vars

\* C6: whatever sequence of Scan, UnmarshalJSON and UnmarshalPis calls was
\* made on a Currency, succeeding or failing, its value is not negative.
C6_CurrencyNeverNegative ==
  IsA("Currency") => Sign(recv.v) >= 0

\* The text is a minus sign followed by one or more digits, not all of
\* them zero.
IsNegativeDecimal(text) ==
  /\ Len(text) >= 2
  /\ text[1] = "-"
  /\ \A i \in 2..Len(text) : IsDigit(text[i])
  /\ \E i \in 2..Len(text) : DigitValue(text[i]) # 0

\* The input of the last UnmarshalJSON, bare or in quotes, denoted a
\* negative integer.
NegativeLoaded ==
  /\ IsA("Currency")
  /\ Called("Currency.UnmarshalJSON")
  /\ \E text \in Texts :
       /\ IsNegativeDecimal(text)
       /\ calls["Currency.UnmarshalJSON"].b \in {text, <<"\"">> \o text \o <<"\"">>}

\* C17: UnmarshalJSON of a decimal that denotes a negative integer, bare or
\* in quotes, returns ErrNegativeCurrency and leaves the Currency zero,
\* whatever it held before.
C17_NegativeJSONRejectedAndZeroed ==
  NegativeLoaded =>
    /\ calls["Currency.UnmarshalJSON"].err = "ErrNegativeCurrency"
    /\ recv.v = ZeroCurrency

\* A negative decimal in quotes was loaded over a value that was not zero.
C17_Witness ==
  /\ NegativeLoaded
  /\ Head(calls["Currency.UnmarshalJSON"].b) = "\""
  /\ Sign(calls["Currency.UnmarshalJSON"].before) > 0
  /\ calls["Currency.UnmarshalJSON"].err = "ErrNegativeCurrency"
  /\ recv.v = ZeroCurrency

\* ------------- SpecWriter: the sanityCheckWriter under any fast encoder
\* MarshalPis with build.DEBUG set wraps w in sanityCheckWriter{w, buf}, buf
\* holding the reference bytes, hands it to the fast encoder and returns
\* e.Err() when that encoder has made its last Write.  The encoder is any
\* sequence of Write calls.

\* The byte values the reference output and the writes are made of.
WriterBytes == {1, 2, 3}

InitWriter ==
  /\ DEBUG = TRUE
  /\ \E buf \in ListsUpTo(WriterBytes, MaxWrites) :
       recv = [type |-> "sanityCheckWriter", v |-> NewSanityCheckWriter(buf),
               ref |-> buf]
  /\ calls = NoCalls

\* The fast encoder calls Write(p) on the sanityCheckWriter.
SanityWrite ==
  /\ IsA("sanityCheckWriter")
  /\ ~Called("MarshalPis")
  /\ ~recv.v.panic
  /\ \E p \in ListsUpTo(WriterBytes, 2) :
       recv' = [recv EXCEPT !.v = sanityCheckWriter_Write(recv.v, p)]
  /\ UNCHANGED <<DEBUG, calls>>

\* The fast encoder has made its last Write without a panic: MarshalPis
\* returns e.Err().
SanityReturn ==
  /\ IsA("sanityCheckWriter")
  /\ ~Called("MarshalPis")
  /\ ~recv.v.panic
  /\ calls' = Put(calls, "MarshalPis",
                  [w |-> recv.v.w, err |-> "nil", panic |-> FALSE, ref |-> TRUE])
  /\ UNCHANGED <<DEBUG, recv>>

NextWriter ==
  \/ SanityWrite
  \/ SanityReturn

SpecWriter == InitWriter /\ [][NextWriter]_vars

HexChars ==
  <<"0", "1", "2", "3", "4", "5", "6", "7", "8", "9", "a", "b", "c", "d", "e", "f">>

UpperHexChars == <<"A", "B", "C", "D", "E", "F">>

\* fmt.Sprintf("%x", bs): two lowercase hex digits per byte.
Sprintf_x(bs) ==
  [i \in 1..(2 * Len(bs)) |->
     IF i % 2 = 1 THEN HexChars[(bs[(i + 1) \div 2] \div 16) + 1]
     ELSE HexChars[(bs[i \div 2] % 16) + 1]]

\* fmt's hexDigit: the value of a hex digit of either case, -1 for any
\* other character.
hexDigit(ch) ==
  IF \E i \in 1..16 : HexChars[i] = ch
  THEN (CHOOSE i \in 1..16 : HexChars[i] = ch) - 1
  ELSE IF \E i \in 1..6 : UpperHexChars[i] = ch
  THEN (CHOOSE i \in 1..6 : UpperHexChars[i] = ch) + 9
  ELSE -1

RECURSIVE hexString(_)
\* fmt's hexString: hex pairs up to the end of the input or to a pair that
\* starts with another character, which stays unread; a pair cut short or
\* with a second character that is no hex digit is an error.
hexString(text) ==
  IF text = <<>> \/ hexDigit(Head(text)) < 0 THEN [v |-> <<>>, err |-> "nil"]
  ELSE IF Len(text) = 1 THEN [v |-> <<>>, err |-> "unexpected EOF"]
  ELSE IF hexDigit(text[2]) < 0 THEN [v |-> <<>>, err |-> "illegal hex digit"]
  ELSE Bind(hexString(Tail(Tail(text))), LAMBDA rest :
         IF rest.err # "nil" THEN rest
         ELSE [v |-> <<16 * hexDigit(text[1]) + hexDigit(text[2])>> \o rest.v,
               err |-> "nil"])

\* fmt.Sscanf(text, "%x", &bytes) on a text without spaces: the bytes stored
\* and the error; input left over is no error, no hex pair at all is one.
Sscanf_x(text) ==
  IF text = <<>> THEN [v |-> <<>>, err |-> "unexpected EOF"]
  ELSE Bind(hexString(text), LAMBDA x :
         IF x.err # "nil" THEN x
         ELSE IF x.v = <<>> THEN [v |-> <<>>, err |-> "no hex data for %x string"]
         ELSE x)

RECURSIVE WeightedSum(_, _)
WeightedSum(bs, j) ==
  IF bs = <<>> THEN 0 ELSE j * (Head(bs) + 1) + WeightedSum(Tail(bs), j + 1)

\* crypto.HashBytes: a HashSize-byte digest of the bytes.  Any function of
\* the bytes serves; this one tells apart byte strings that differ in one
\* byte or in length.
HashBytes(bs) ==
  Bind(LEBytes(WeightedSum(bs, 1), 4), LAMBDA m :
    [i \in 1..HashSize |-> (m[((i - 1) % 4) + 1] + 37 * ((i - 1) \div 4)) % 256])

\* crypto.HashObject(uh): the hash of the encoding of uh, and a byte array
\* is encoded as its bytes.
HashObject_UnlockHash(uh) == HashBytes(uh)

\* UnlockHash.String.
UnlockHash_String(uh) ==
  Sprintf_x(uh) \o Sprintf_x(Take(HashObject_UnlockHash(uh), UnlockHashChecksumSize))

\* A faulty UnlockHash.LoadString: the checksum is decoded but never
\* compared.
UnlockHash_LoadString_NoChecksum(uh, strUH) ==
  IF Len(strUH) # HashSize * 2 + UnlockHashChecksumSize * 2
  THEN [uh |-> uh, err |-> "ErrUnlockHashWrongLen"]
  ELSE Bind(Sscanf_x(Take(strUH, HashSize * 2)), LAMBDA a :
       IF a.err # "nil" THEN [uh |-> uh, err |-> a.err]
       ELSE Bind(Sscanf_x(Drop(strUH, HashSize * 2)), LAMBDA b :
            IF b.err # "nil" THEN [uh |-> uh, err |-> b.err]
            ELSE [uh |-> [i \in 1..HashSize |->
                            IF i <= Len(a.v) THEN a.v[i] ELSE uh[i]],
                  err |-> "nil"]))

\* A faulty UnlockHash.LoadString: the checksum text is taken one byte too
\* far into the string.
UnlockHash_LoadString_ShiftedChecksum(uh, strUH) ==
  IF Len(strUH) # HashSize * 2 + UnlockHashChecksumSize * 2
  THEN [uh |-> uh, err |-> "ErrUnlockHashWrongLen"]
  ELSE Bind(Sscanf_x(Take(strUH, HashSize * 2)), LAMBDA a :
       IF a.err # "nil" THEN [uh |-> uh, err |-> a.err]
       ELSE Bind(Sscanf_x(Drop(strUH, HashSize * 2 + 2)), LAMBDA b :
            IF b.err # "nil" THEN [uh |-> uh, err |-> b.err]
            ELSE IF Take(HashBytes(a.v), UnlockHashChecksumSize) # b.v
            THEN [uh |-> uh, err |-> "ErrInvalidUnlockHashChecksum"]
            ELSE [uh |-> [i \in 1..HashSize |->
                            IF i <= Len(a.v) THEN a.v[i] ELSE uh[i]],
                  err |-> "nil"]))

\* UnlockHash.LoadString(strUH) on the destination uh: the value left in uh
\* and the error.  copy(uh[:], byteUnlockHash[:]) overwrites as many bytes
\* as were decoded.
UnlockHash_LoadString(uh, strUH) ==
  IF Len(strUH) # HashSize * 2 + UnlockHashChecksumSize * 2
  THEN [uh |-> uh, err |-> "ErrUnlockHashWrongLen"]
  ELSE Bind(Sscanf_x(Take(strUH, HashSize * 2)), LAMBDA a :
       IF a.err # "nil" THEN [uh |-> uh, err |-> a.err]
       ELSE Bind(Sscanf_x(Drop(strUH, HashSize * 2)), LAMBDA b :
            IF b.err # "nil" THEN [uh |-> uh, err |-> b.err]
            ELSE IF Take(HashBytes(a.v), UnlockHashChecksumSize) # b.v
            THEN [uh |-> uh, err |-> "ErrInvalidUnlockHashChecksum"]
            ELSE [uh |-> [i \in 1..HashSize |->
                            IF i <= Len(a.v) THEN a.v[i] ELSE uh[i]],
                  err |-> "nil"]))

\* The bytes the unlock hashes under test are built from.
UnlockHashSeeds == {0, 9, 10, 15, 16, 160, 171, 239, 240, 255}

\* The unlock hashes under test.
UnlockHashSet ==
  {Fill(HashSize, x) : x \in UnlockHashSeeds}
    \cup {Ramp(HashSize, x) : x \in UnlockHashSeeds}

\* The characters put in place of a character of the checksum: every
\* lowercase hex digit, two uppercase ones and a letter that is no hex digit.
EditChars == {HexChars[k] : k \in 1..16} \cup {"A", "F", "g"}

\* The strings given to LoadString for the string str: str itself, str with
\* one character of the hash part replaced, and str with any one character
\* of the checksum part replaced.
EditsOf(str) ==
  {str}
    \cup {[str EXCEPT ![i] = ch] :
            i \in {1, 3, HashSize * 2}, ch \in {"0", "A", "g"}}
    \cup {[str EXCEPT ![i] = ch] :
            i \in (HashSize * 2 + 1)..Len(str), ch \in EditChars}

\* Strings of another length than str made from str: prefixes, among them
\* the hash part without checksum, and extensions.
WrongLengthsOf(str) ==
  {Take(str, k) : k \in {0, 1, UnlockHashChecksumSize * 2, HashSize * 2,
                         HashSize * 2 + 2, Len(str) - 1}}
    \cup {str \o <<"0">>, str \o <<"0", "0">>}

\* s as a JSON string.
Quoted(str) == <<"\"">> \o str \o <<"\"">>

\* A faulty UnlockHash.UnmarshalJSON: the checksum-less form its length
\* test lets through is decoded and stored.
UnlockHash_UnmarshalJSON_AcceptsBare(uh, b) ==
  IF Len(b) # HashSize * 2 + UnlockHashChecksumSize * 2 + 2 /\ Len(b) # HashSize * 2 + 2
  THEN [uh |-> uh, err |-> "ErrUnlockHashWrongLen"]
  ELSE IF Len(b) = HashSize * 2 + 2
  THEN Bind(Sscanf_x(SubSeq(b, 2, Len(b) - 1)), LAMBDA a :
         IF a.err # "nil" THEN [uh |-> uh, err |-> a.err]
         ELSE [uh |-> [i \in 1..HashSize |-> IF i <= Len(a.v) THEN a.v[i] ELSE uh[i]],
               err |-> "nil"])
  ELSE UnlockHash_LoadString(uh, SubSeq(b, 2, Len(b) - 1))

\* UnlockHash.UnmarshalJSON(b) on the destination uh (lines 946-952): the
\* value left in uh and the error.
UnlockHash_UnmarshalJSON(uh, b) ==
  IF Len(b) # HashSize * 2 + UnlockHashChecksumSize * 2 + 2 /\ Len(b) # HashSize * 2 + 2
  THEN [uh |-> uh, err |-> "ErrUnlockHashWrongLen"]
  ELSE UnlockHash_LoadString(uh, SubSeq(b, 2, Len(b) - 1))

InitUnlockHash ==
  /\ DEBUG = FALSE
  /\ \E uh \in UnlockHashSet, dest \in {Fill(HashSize, 0), Fill(HashSize, 238)} :
       recv = [type |-> "UnlockHash", v |-> uh, dest |-> dest]
  /\ calls = NoCalls

\* uh.String().
UnlockHashString ==
  /\ IsA("UnlockHash")
  /\ calls' = Put(calls, "UnlockHash.String", [s |-> UnlockHash_String(recv.v)])
  /\ UNCHANGED <<DEBUG, recv>>

\* dest.LoadString(str), str being the string uh.String() returned, that
\* string with one character replaced, or a string of another length.  One
\* string is loaded into the destination per run.
UnlockHashLoadString ==
  /\ IsA("UnlockHash")
  /\ Called("UnlockHash.String")
  /\ ~Called("UnlockHash.LoadString") /\ ~Called("UnlockHash.UnmarshalJSON")
  /\ \E str \in EditsOf(calls["UnlockHash.String"].s)
                  \cup WrongLengthsOf(calls["UnlockHash.String"].s) :
       \E x \in {UnlockHash_LoadString(recv.dest, str)} :
         /\ recv' = [recv EXCEPT !.dest = x.uh]
         /\ calls' = Put(calls, "UnlockHash.LoadString",
                         [str |-> str, err |-> x.err, before |-> recv.dest])
  /\ UNCHANGED DEBUG

\* dest.UnmarshalJSON(b), b being the string uh.String() returned or a
\* string of another length, in quotes, or 66 or 78 characters of the
\* string without quotes.
UnlockHashUnmarshalJSON ==
  /\ IsA("UnlockHash")
  /\ Called("UnlockHash.String")
  /\ ~Called("UnlockHash.LoadString") /\ ~Called("UnlockHash.UnmarshalJSON")
  /\ \E b \in {Quoted(str) : str \in {calls["UnlockHash.String"].s}
                                \cup WrongLengthsOf(calls["UnlockHash.String"].s)}
                \cup {Take(calls["UnlockHash.String"].s, HashSize * 2 + 2),
                      calls["UnlockHash.String"].s \o <<"0", "0">>} :
       \E x \in {UnlockHash_UnmarshalJSON(recv.dest, b)} :
         /\ recv' = [recv EXCEPT !.dest = x.uh]
         /\ calls' = Put(calls, "UnlockHash.UnmarshalJSON",
                         [b |-> b, err |-> x.err, before |-> recv.dest])
  /\ UNCHANGED DEBUG

NextUnlockHash ==
  \/ UnlockHashString
  \/ UnlockHashLoadString
  \/ UnlockHashUnmarshalJSON

SpecUnlockHash == InitUnlockHash /\ [][NextUnlockHash]_vars

\* C10: uh.String() is the 64 lowercase hex digits of uh followed by the 12
\* hex digits of the first 6 bytes of the hash of uh, and LoadString of that
\* string returns no error and leaves uh in the destination.
C10_UnlockHashTextRoundTrip ==
  (IsA("UnlockHash") /\ Called("UnlockHash.String")) =>
    /\ Len(calls["UnlockHash.String"].s) = 64 + 12
    /\ \A i \in 1..HashSize :
         /\ hexDigit(calls["UnlockHash.String"].s[2 * i - 1]) = recv.v[i] \div 16
         /\ hexDigit(calls["UnlockHash.String"].s[2 * i]) = recv.v[i] % 16
    /\ \A i \in 1..(64 + 12) :
         \E k \in 1..16 : calls["UnlockHash.String"].s[i] = HexChars[k]
    /\ hexString(Drop(calls["UnlockHash.String"].s, 64)) =
         [v |-> Take(HashBytes(recv.v), 6), err |-> "nil"]
    /\ (Called("UnlockHash.LoadString")
          /\ calls["UnlockHash.LoadString"].str = calls["UnlockHash.String"].s)
         => /\ calls["UnlockHash.LoadString"].err = "nil"
            /\ recv.dest = recv.v

\* C10 witness: the string of an unlock hash with letter digits was loaded
\* into a destination that held other bytes, which now holds the hash.
C10_Witness ==
  /\ IsA("UnlockHash")
  /\ Called("UnlockHash.String") /\ Called("UnlockHash.LoadString")
  /\ calls["UnlockHash.LoadString"].str = calls["UnlockHash.String"].s
  /\ calls["UnlockHash.LoadString"].err = "nil"
  /\ recv.v = Ramp(HashSize, 160)
  /\ Take(calls["UnlockHash.String"].s, 4) = <<"a", "1", "a", "2">>
  /\ recv.dest = recv.v

\* The string loaded is the string of uh with one character of its
\* checksum part replaced by a different character.
ChecksumEdited ==
  /\ IsA("UnlockHash")
  /\ Called("UnlockHash.String") /\ Called("UnlockHash.LoadString")
  /\ Len(calls["UnlockHash.LoadString"].str) = Len(calls["UnlockHash.String"].s)
  /\ Take(calls["UnlockHash.LoadString"].str, HashSize * 2)
       = Take(calls["UnlockHash.String"].s, HashSize * 2)
  /\ calls["UnlockHash.LoadString"].str # calls["UnlockHash.String"].s

\* The replaced character is a hex digit of another value than the original.
EditedToOtherDigit ==
  /\ \A i \in 1..Len(calls["UnlockHash.LoadString"].str) :
       hexDigit(calls["UnlockHash.LoadString"].str[i]) >= 0
  /\ \E i \in 1..Len(calls["UnlockHash.LoadString"].str) :
       hexDigit(calls["UnlockHash.LoadString"].str[i])
         # hexDigit(calls["UnlockHash.String"].s[i])

\* The replaced character is no hex digit.
EditedToNonHex ==
  \E i \in 1..Len(calls["UnlockHash.LoadString"].str) :
    hexDigit(calls["UnlockHash.LoadString"].str[i]) < 0

\* C11 as stated: replacing any one character of the checksum part of
\* uh.String() by any different character makes LoadString return
\* ErrInvalidUnlockHashChecksum.
C11_AnyChecksumEditIsChecksumError ==
  ChecksumEdited => calls["UnlockHash.LoadString"].err = "ErrInvalidUnlockHashChecksum"

\* C11 amended: replacing one character of the checksum part by a hex digit
\* of another value makes LoadString return ErrInvalidUnlockHashChecksum;
\* replacing it by a character that is no hex digit makes LoadString return
\* an error, the checksum error or the scan error; in both cases the
\* destination keeps its value.  (The same digit in the other case is the
\* same checksum and is accepted.)
C11_ChecksumDigitEditIsChecksumError ==
  ChecksumEdited =>
    /\ EditedToOtherDigit =>
         /\ calls["UnlockHash.LoadString"].err = "ErrInvalidUnlockHashChecksum"
         /\ recv.dest = calls["UnlockHash.LoadString"].before
    /\ EditedToNonHex =>
         /\ calls["UnlockHash.LoadString"].err
              \in {"ErrInvalidUnlockHashChecksum", "illegal hex digit",
                   "no hex data for %x string"}
         /\ recv.dest = calls["UnlockHash.LoadString"].before
    /\ (~EditedToOtherDigit /\ ~EditedToNonHex) =>
         /\ calls["UnlockHash.LoadString"].err = "nil"
         /\ recv.dest = recv.v

\* C11 witness: the tenth character of the checksum was replaced by another
\* lowercase hex digit, the checksum error came back and the destination,
\* which held other bytes, kept them.
C11_Witness ==
  /\ ChecksumEdited
  /\ EditedToOtherDigit
  /\ calls["UnlockHash.LoadString"].str[HashSize * 2 + 10]
       # calls["UnlockHash.String"].s[HashSize * 2 + 10]
  /\ \E k \in 1..16 : calls["UnlockHash.LoadString"].str[HashSize * 2 + 10] = HexChars[k]
  /\ calls["UnlockHash.LoadString"].err = "ErrInvalidUnlockHashChecksum"
  /\ recv.dest = Fill(HashSize, 238)
  /\ recv.dest # recv.v

\* C12: LoadString returns ErrUnlockHashWrongLen for every string whose
\* length is not 76, UnmarshalJSON returns it for every input whose length
\* is not 78, the 66-byte form without checksum included, and the
\* destination keeps its previous value in each of these failures.
C12_WrongLengthRejected ==
  IsA("UnlockHash") =>
    /\ (Called("UnlockHash.LoadString") /\ Len(calls["UnlockHash.LoadString"].str) # 76)
         => /\ calls["UnlockHash.LoadString"].err = "ErrUnlockHashWrongLen"
            /\ recv.dest = calls["UnlockHash.LoadString"].before
    /\ (Called("UnlockHash.UnmarshalJSON") /\ Len(calls["UnlockHash.UnmarshalJSON"].b) # 78)
         => /\ calls["UnlockHash.UnmarshalJSON"].err = "ErrUnlockHashWrongLen"
            /\ recv.dest = calls["UnlockHash.UnmarshalJSON"].before

\* C12 witness: UnmarshalJSON was given the 64 hex digits of the hash in
\* quotes, 66 bytes, and returned the length error with the destination,
\* which held other bytes, unchanged.
C12_Witness ==
  /\ IsA("UnlockHash")
  /\ Called("UnlockHash.String") /\ Called("UnlockHash.UnmarshalJSON")
  /\ calls["UnlockHash.UnmarshalJSON"].b
       = Quoted(Take(calls["UnlockHash.String"].s, 64))
  /\ Len(calls["UnlockHash.UnmarshalJSON"].b) = 66
  /\ calls["UnlockHash.UnmarshalJSON"].err = "ErrUnlockHashWrongLen"
  /\ recv.dest = Fill(HashSize, 238)
  /\ recv.dest # recv.v

\* ------------------------------ SpecSpecifier: the text form of Specifier
\* A Specifier is its SpecifierLen bytes; a Go string is its bytes.

Ascii_quote == 34
Ascii_colon == 58
Ascii_null == <<110, 117, 108, 108>>
Ascii_host == <<104, 111, 115, 116>>

\* A JSON string literal of plain characters: the text in quotes.
JsonQuoted(text) == <<Ascii_quote>> \o text \o <<Ascii_quote>>

\* json.Unmarshal(b, &str) for the inputs under test: null leaves str empty,
\* a literal of plain characters gives its content, anything else is an
\* error.
Json_UnmarshalString(b) ==
  IF b = Ascii_null THEN [str |-> <<>>, err |-> "nil"]
  ELSE IF /\ Len(b) >= 2
          /\ b[1] = Ascii_quote /\ b[Len(b)] = Ascii_quote
          /\ \A i \in 2..(Len(b) - 1) : b[i] >= 32 /\ b[i] # Ascii_quote /\ b[i] # 92
  THEN [str |-> SubSeq(b, 2, Len(b) - 1), err |-> "nil"]
  ELSE [str |-> <<>>, err |-> "json: invalid"]

RECURSIVE Specifier_String_index(_, _)
\* for i = range s { if s[i] == 0 { break } }: the value of i after the
\* loop, i counting from 0; without a zero byte i stops at the last index.
Specifier_String_index(s, i) ==
  IF s[i + 1] = 0 THEN i
  ELSE IF i + 1 = Len(s) THEN i
  ELSE Specifier_String_index(s, i + 1)

\* Specifier.String: string(s[:i]).
Specifier_String(s) == Take(s, Specifier_String_index(s, 0))

\* copy(dst, src): the first min(len(dst), len(src)) bytes of dst replaced.
Copy(dst, src) ==
  [i \in 1..Len(dst) |-> IF i <= Len(src) THEN src[i] ELSE dst[i]]

\* Specifier.UnmarshalJSON(b) on s: the value left in s and the error.
Specifier_UnmarshalJSON(s, b) ==
  Bind(Json_UnmarshalString(b), LAMBDA x :
    IF x.err # "nil" THEN [s |-> s, err |-> x.err]
    ELSE [s |-> Copy(s, x.str), err |-> "nil"])

\* The text of n letters starting after the letter base.
Letters(n, base) == [i \in 1..n |-> base + ((i - 1) % 26)]

\* The texts loaded into a Specifier: every length from 0 to two more than
\* a Specifier holds.
SpecifierTexts ==
  {Letters(n, base) : n \in 0..(SpecifierLen + 2), base \in {65, 97}}
    \cup {Ascii_host}

\* The Specifiers under test: zero, a short name, and 16 non-zero bytes.
SpecifierSet ==
  {Fill(SpecifierLen, 0), SpecifierOf(Ascii_host), SpecifierOf(Ascii_ed25519),
   Letters(SpecifierLen, 107)}

InitSpecifier ==
  /\ DEBUG = FALSE
  /\ \E sp \in SpecifierSet : recv = [type |-> "Specifier", v |-> sp]
  /\ calls = NoCalls

\* s.String().
SpecifierString ==
  /\ IsA("Specifier")
  /\ calls' = Put(calls, "Specifier.String", [s |-> Specifier_String(recv.v)])
  /\ UNCHANGED <<DEBUG, recv>>

\* s.UnmarshalJSON(b), b being a text in quotes, the text bare, or null.
\* One input is loaded per run; the calls recorded are those made on the
\* current value of s.
SpecifierUnmarshalJSON ==
  /\ IsA("Specifier")
  /\ ~Called("Specifier.UnmarshalJSON")
  /\ \E b \in {JsonQuoted(t) : t \in SpecifierTexts}
                \cup {Ascii_host, Ascii_null} :
       \E x \in {Specifier_UnmarshalJSON(recv.v, b)} :
         /\ recv' = [recv EXCEPT !.v = x.s]
         /\ calls' = Put(NoCalls, "Specifier.UnmarshalJSON",
                         [b |-> b, err |-> x.err, before |-> recv.v])
  /\ UNCHANGED DEBUG

NextSpecifier ==
  \/ SpecifierString
  \/ SpecifierUnmarshalJSON

SpecSpecifier == InitSpecifier /\ [][NextSpecifier]_vars

\* The JSON string loaded was a text in quotes; its content.
LoadedText == SubSeq(calls["Specifier.UnmarshalJSON"].b, 2,
                     Len(calls["Specifier.UnmarshalJSON"].b) - 1)

LoadedQuoted ==
  /\ IsA("Specifier")
  /\ Called("Specifier.UnmarshalJSON")
  /\ Len(calls["Specifier.UnmarshalJSON"].b) >= 2
  /\ calls["Specifier.UnmarshalJSON"].b[1] = Ascii_quote

\* C13: a string of 0 to 16 non-zero bytes loaded into a zero Specifier
\* comes back unchanged from String(), a string of 16 bytes included.
C13_SpecifierTextRoundTrip ==
  (LoadedQuoted /\ Called("Specifier.String")
     /\ calls["Specifier.UnmarshalJSON"].before = Fill(SpecifierLen, 0)
     /\ Len(LoadedText) <= 16)
    => calls["Specifier.String"].s = LoadedText

\* C14: UnmarshalJSON of a JSON string of n bytes leaves the Specifier equal
\* to the first min(n, 16) bytes of the string followed by zero bytes,
\* whatever it held before.
C14_SpecifierLoadPadsWithZeros ==
  LoadedQuoted =>
    /\ calls["Specifier.UnmarshalJSON"].err = "nil"
    /\ recv.v = Take(LoadedText, 16)
                  \o Fill(16 - Len(Take(LoadedText, 16)), 0)


\* --------------------------- SpecPublicKey: the text form of PisPublicKey

\* The ASCII code of the lowercase hex digit of value d.
AsciiOfHexValue(d) == IF d < 10 THEN 48 + d ELSE 87 + d

\* fmt.Sprintf("%x", bs) as bytes: two lowercase hex digits per byte.
Sprintf_x_bytes(bs) ==
  [i \in 1..(2 * Len(bs)) |->
     IF i % 2 = 1 THEN AsciiOfHexValue(bs[(i + 1) \div 2] \div 16)
     ELSE AsciiOfHexValue(bs[i \div 2] % 16)]

\* encoding/hex's table: the value of a hex digit of either case, -1 for
\* any other byte.
fromHexChar(ch) ==
  IF ch >= 48 /\ ch <= 57 THEN ch - 48
  ELSE IF ch >= 97 /\ ch <= 102 THEN ch - 87
  ELSE IF ch >= 65 /\ ch <= 70 THEN ch - 55
  ELSE -1

\* hex.DecodeString: the bytes of the hex pairs; a byte that is no hex
\* digit or an odd length is an error.
hex_DecodeString(text) ==
  IF \E i \in 1..Len(text) : fromHexChar(text[i]) < 0
  THEN [v |-> <<>>, err |-> "encoding/hex: invalid byte"]
  ELSE IF Len(text) % 2 = 1
  THEN [v |-> <<>>, err |-> "encoding/hex: odd length hex string"]
  ELSE [v |-> [i \in 1..(Len(text) \div 2) |->
                 16 * fromHexChar(text[2 * i - 1]) + fromHexChar(text[2 * i])],
        err |-> "nil"]

RECURSIVE strings_Split(_, _)
\* strings.Split(text, sep) for a one-byte separator: the pieces between
\* the separators, one more than there are separators.
strings_Split(text, sep) ==
  IF \A i \in 1..Len(text) : text[i] # sep THEN <<text>>
  ELSE Bind(CHOOSE i \in 1..Len(text) :
              text[i] = sep /\ \A j \in 1..(i - 1) : text[j] # sep,
            LAMBDA i : <<Take(text, i - 1)>> \o strings_Split(Drop(text, i), sep))

\* PisPublicKey.LoadString(s) on spk: the value left in spk.
PisPublicKey_LoadString(spk, str) ==
  Bind(strings_Split(str, Ascii_colon), LAMBDA parts :
    IF Len(parts) # 2 THEN spk
    ELSE Bind(hex_DecodeString(parts[2]), LAMBDA key :
           IF key.err # "nil" THEN [spk EXCEPT !.Key = <<>>]
           ELSE [Algorithm |-> Copy(spk.Algorithm, parts[1]), Key |-> key.v]))

\* PisPublicKey.String.
PisPublicKey_String(spk) ==
  Specifier_String(spk.Algorithm) \o <<Ascii_colon>> \o Sprintf_x_bytes(spk.Key)

\* The public keys printed: a named algorithm with a key, the same with no
\* key, other names, an algorithm of 16 non-zero bytes, one with a colon
\* in it, one with a byte after a zero byte.
PublicKeySet ==
  {[Algorithm |-> SpecifierOf(Ascii_ed25519), Key |-> Ramp(3, 10)],
   [Algorithm |-> SpecifierOf(Ascii_ed25519), Key |-> <<>>],
   [Algorithm |-> SpecifierOf(Ascii_host), Key |-> <<0, 255>>],
   [Algorithm |-> SpecifierOf(Ascii_hello), Key |-> <<171>>],
   [Algorithm |-> Fill(SpecifierLen, 0), Key |-> <<7>>],
   [Algorithm |-> Letters(SpecifierLen, 107), Key |-> <<1>>],
   [Algorithm |-> SpecifierOf(<<104, Ascii_colon, 104>>), Key |-> <<1>>],
   [Algorithm |-> SpecifierOf(<<104, 0, 104>>), Key |-> <<1>>]}

\* Strings that String() does not print: no colon, two colons, a key that
\* is no hex, a key of odd length, a key in capitals.
OtherKeyStrings ==
  {<<>>, Ascii_host, Ascii_host \o Sprintf_x_bytes(<<1>>),
   Ascii_host \o <<Ascii_colon, 48, 49, Ascii_colon, 48, 49>>,
   <<Ascii_colon, Ascii_colon>>,
   Ascii_host \o <<Ascii_colon, 122, 122>>,
   Ascii_host \o <<Ascii_colon, 48, 49, 50>>,
   Ascii_host \o <<Ascii_colon, 65, 66>>}

\* The receivers: the zero value and keys loaded before.
ReceiverSet ==
  {[Algorithm |-> Fill(SpecifierLen, 0), Key |-> <<>>],
   [Algorithm |-> SpecifierOf(Ascii_ed25519), Key |-> Ramp(3, 10)],
   [Algorithm |-> SpecifierOf(Ascii_hello), Key |-> <<>>],
   [Algorithm |-> Letters(SpecifierLen, 65), Key |-> <<9, 9>>]}

InitPublicKey ==
  /\ DEBUG = FALSE
  /\ \E r \in ReceiverSet : recv = [type |-> "PisPublicKey", v |-> r]
  /\ calls = NoCalls

\* spk.String().
PublicKeyString ==
  /\ IsA("PisPublicKey")
  /\ calls' = Put(calls, "PisPublicKey.String",
                  [s |-> PisPublicKey_String(recv.v)])
  /\ UNCHANGED <<DEBUG, recv>>

\* spk.LoadString(s), s being pk.String() for a key pk (kept in of) or
\* another string.  One string is loaded per run; the calls recorded are
\* those made on the current value of spk.
PublicKeyLoadString ==
  /\ IsA("PisPublicKey")
  /\ ~Called("PisPublicKey.LoadString")
  /\ \E in \in {[s |-> PisPublicKey_String(pk), of |-> <<pk>>] : pk \in PublicKeySet}
                 \cup {[s |-> t, of |-> <<>>] : t \in OtherKeyStrings} :
       /\ recv' = [recv EXCEPT !.v = PisPublicKey_LoadString(recv.v, in.s)]
       /\ calls' = Put(NoCalls, "PisPublicKey.LoadString",
                       [s |-> in.s, of |-> in.of, before |-> recv.v])
  /\ UNCHANGED DEBUG

NextPublicKey ==
  \/ PublicKeyString
  \/ PublicKeyLoadString

SpecPublicKey == InitPublicKey /\ [][NextPublicKey]_vars

\* The number of colons in the string loaded.
ColonsLoaded ==
  Cardinality({i \in 1..Len(calls["PisPublicKey.LoadString"].s) :
                 calls["PisPublicKey.LoadString"].s[i] = Ascii_colon})

\* C15: LoadString of a string that does not hold exactly one colon leaves
\* the receiver with an empty Key, whatever Key it held before.
C15_MalformedLoadEmptiesKey ==
  (IsA("PisPublicKey") /\ Called("PisPublicKey.LoadString") /\ ColonsLoaded # 1)
    => recv.v.Key = <<>>

\* C16: after r.LoadString(pk.String()) the Algorithm and Key of r equal
\* those of pk, for every key pk and every receiver r.
C16_LoadStringInvertsString ==
  (IsA("PisPublicKey") /\ Called("PisPublicKey.LoadString")
     /\ calls["PisPublicKey.LoadString"].of # <<>>)
    => recv.v = calls["PisPublicKey.LoadString"].of[1]


\* ------------------- SpecDebug: the codec with build.DEBUG set and cleared

\* The transactions encoded and decoded under both settings: the empty one,
\* one element in each sequence, and one that also carries a signature.
DebugTxSet ==
  {EmptyTx}
    \cup {TxWith(k, <<2>>, 0) : k \in 1..10}
    \cup {TxWith(1, <<1>>, 10)}

\* The lengths to which an encoding of len bytes is cut: every eighth byte,
\* the last byte missing, and the whole encoding.
DebugCuts(len) == {cut \in 0..len : cut % 8 = 0 \/ cut >= len - 1}

InitDebug ==
  /\ DEBUG \in BOOLEAN
  /\ \/ \E t \in DebugTxSet : recv = [type |-> "Transaction", v |-> t]
     \/ \E blk \in TruncBlockSet : recv = [type |-> "Block", v |-> blk]
  /\ calls = NoCalls

\* new(Transaction).UnmarshalPis(r), r holding the bytes MarshalPis
\* delivered or a prefix of them.
TxUnmarshalPisPrefix ==
  /\ IsA("Transaction")
  /\ Called("Transaction.MarshalPis")
  /\ ~calls["Transaction.MarshalPis"].panic
  /\ ~Called("Transaction.UnmarshalPis")
  /\ \E cut \in DebugCuts(Len(calls["Transaction.MarshalPis"].w)) :
       calls' = Put(calls, "Transaction.UnmarshalPis",
                    Call_Transaction_UnmarshalPis(
                      Take(calls["Transaction.MarshalPis"].w, cut), DEBUG))
  /\ UNCHANGED <<DEBUG, recv>>

\* new(Block).UnmarshalPis(r), r holding the bytes MarshalPis delivered or
\* a prefix of them.
BlockUnmarshalPisPrefix ==
  /\ IsA("Block")
  /\ Called("Block.MarshalPis")
  /\ ~calls["Block.MarshalPis"].panic
  /\ ~Called("Block.UnmarshalPis")
  /\ \E cut \in DebugCuts(Len(calls["Block.MarshalPis"].w)) :
       calls' = Put(calls, "Block.UnmarshalPis",
                    Call_Block_UnmarshalPis(
                      Take(calls["Block.MarshalPis"].w, cut), DEBUG))
  /\ UNCHANGED <<DEBUG, recv>>

NextDebug ==
  \/ TxMarshalPis
  \/ TxUnmarshalPisPrefix
  \/ BlockMarshalPis
  \/ BlockUnmarshalPisPrefix

SpecDebug == InitDebug /\ [][NextDebug]_vars


\* Two outcomes of MarshalPis, one of them from a call that panicked or
\* both delivering the same bytes and error.
SameDelivery(a, b) == a.panic \/ b.panic \/ (a.w = b.w /\ a.err = b.err)

\* Two outcomes of UnmarshalPis, one of them from a call that panicked or
\* both producing the same value and error.
SameDecoding(a, b) == a.panic \/ b.panic \/ (a.v = b.v /\ a.err = b.err)

\* C18: with build.DEBUG set or cleared, MarshalPis delivers the same bytes
\* and UnmarshalPis produces the same value and error, for every Block and
\* Transaction on which the harness does not panic: each recorded outcome
\* equals the outcome of the same call under the other setting.
C18_DebugHarnessTransparent ==
  /\ (IsA("Transaction") /\ Called("Transaction.MarshalPis")) =>
       SameDelivery(calls["Transaction.MarshalPis"],
                    Call_Transaction_MarshalPis(recv.v, ~DEBUG))
  /\ (IsA("Transaction") /\ Called("Transaction.UnmarshalPis")) =>
       SameDecoding(calls["Transaction.UnmarshalPis"],
                    Call_Transaction_UnmarshalPis(
                      calls["Transaction.UnmarshalPis"].r, ~DEBUG))
  /\ (IsA("Block") /\ Called("Block.MarshalPis")) =>
       SameDelivery(calls["Block.MarshalPis"],
                    Call_Block_MarshalPis(recv.v, ~DEBUG))
  /\ (IsA("Block") /\ Called("Block.UnmarshalPis")) =>
       SameDecoding(calls["Block.UnmarshalPis"],
                    Call_Block_UnmarshalPis(calls["Block.UnmarshalPis"].r, ~DEBUG))

\* With build.DEBUG set a block with a transaction was encoded through the
\* sanityCheckWriter without panic and decoded back, whole, to the block.
C18_Witness ==
  /\ DEBUG
  /\ IsA("Block")
  /\ recv.v.Transactions # <<>>
  /\ Called("Block.MarshalPis")
  /\ calls["Block.MarshalPis"].ref
  /\ ~calls["Block.MarshalPis"].panic
  /\ Len(calls["Block.MarshalPis"].w) > 0
  /\ Called("Block.UnmarshalPis")
  /\ calls["Block.UnmarshalPis"].ref
  /\ ~calls["Block.UnmarshalPis"].panic
  /\ calls["Block.UnmarshalPis"].err = "nil"
  /\ calls["Block.UnmarshalPis"].v = recv.v
  /\ calls["Block.UnmarshalPis"].r = calls["Block.MarshalPis"].w

====
